---- MODULE Spec2Model ----
(***************************************************************************)
(* jira-juggler: the task derivation pipeline of                           *)
(* src/src/mlx/jira_juggler/jira_juggler.py (JiraJuggler.load_issues_from_ *)
(* jira and the functions it calls).                                       *)
(*                                                                         *)
(* Representation                                                          *)
(*  - A Python string that the code inspects (issue keys, identifiers) is  *)
(*    a sequence of one-character strings; other strings are TLA+ strings. *)
(*  - None is the empty sequence <<>>, a present value x is <<x>>.         *)
(*  - An effort (a float number of days in the code) is kept as the        *)
(*    integer number of 1/FACTOR days, so seconds / FACTOR is exact and    *)
(*    MINIMAL_VALUE (1/8 day) is FACTOR/8.                                 *)
(*  - A datetime is an integer number of half hours; to_juggler_date keeps *)
(*    the hour only, as strftime('%Y-%m-%d-%H:00') does.                   *)
(*  - The 'created' string of a change of the history is its local time    *)
(*    and its UTC offset (both in half hours); strings compare by local    *)
(*    time first, isoparse yields the instant local - offset.              *)
(*  - JugglerTask objects live in the heap obj, addressed by object id;    *)
(*    Python lists of tasks are sequences of object ids.                   *)
(***************************************************************************)
EXTENDS Integers, Sequences, FiniteSets, TLC

VARIABLES
    jira,   \* the issues the search returns, in result order (jirahandle)
    handle, \* how jirahandle serves the search: the page size and the fetch that fails
    opts,   \* keyword arguments of juggle and JugglerTaskDepends.links
    obj,    \* heap of JugglerTask objects: object id -> fields
    tasks,  \* the local list `tasks` of load_issues_from_jira
    out,    \* the output file: None while untouched, else the text written to it
    pc,     \* position inside juggle and load_issues_from_jira
    id_to_username_mapping, \* the module-level dict of to_username: user id -> username
    returned, \* the calls of to_username since the construction of the JiraJuggler instance
    weekends, \* a call of calculate_weekends: its arguments and, once it is over, its outcome
    depends_properties \* JugglerTaskDepends objects outside any task, and the list objects
                       \* their values refer to

vars ==
    <<jira, handle, opts, obj, tasks, out, pc, id_to_username_mapping, returned, weekends,
      depends_properties>>

\* Number of issues the query returns.
NumTasks == 3
\* Largest number of links of an issue
MaxLinks == 2
\* Largest number of calls of to_username on one JiraJuggler instance
MaxCalls == 4
\* Number of JugglerTaskDepends objects outside any task
NumProperties == 2
\* Resolution and sprint dates range over 0..MaxDate (half hours).
MaxDate == 3
\* The change history of an issue holds at most MaxHistory changes.
MaxHistory == 3
\* A summary ends in at most MaxTail characters that may be double quotes.
MaxTail == 3

TaskIds == 1..NumTasks

-----------------------------------------------------------------------------
(* Optional values *)

None == <<>>
Some(x) == <<x>>
Val(v) == v[1]

\* Python truthiness of an optional number: None and 0 are falsy.
Truthy(v) == v # None /\ Val(v) # 0

-----------------------------------------------------------------------------
(* Sequence helpers *)

Range(s) == {s[j] : j \in 1..Len(s)}

RECURSIVE SeqSum(_)
SeqSum(s) == IF s = <<>> THEN 0 ELSE Head(s) + SeqSum(Tail(s))

\* list.remove(x): drops the first occurrence of x.
RECURSIVE ListRemove(_, _)
ListRemove(s, x) ==
    IF s = <<>> THEN <<>>
    ELSE IF Head(s) = x THEN Tail(s)
    ELSE <<Head(s)>> \o ListRemove(Tail(s), x)

InsertAt(s, k, x) == SubSeq(s, 1, k - 1) \o <<x>> \o SubSeq(s, k, Len(s))

Reverse(s) == [j \in 1..Len(s) |-> s[Len(s) + 1 - j]]

\* All sequences over a set of at most the given length
SeqsUpTo(S, n) == UNION {[1..k -> S] : k \in 0..n}

-----------------------------------------------------------------------------
(* Keys and identifiers *)

Digits == <<"1", "2", "3", "4", "5", "6", "7", "8", "9">>

\* The key of the i-th issue of the result set, e.g. "T-1".
Key(i) == <<"T", "-", Digits[i]>>

\* A key of an issue that the query does not return.
OutsideKey == <<"X", "-", "9">>

to_identifier(key) == [j \in 1..Len(key) |-> IF key[j] = "-" THEN "_" ELSE key[j]]

\* the hour resolution of strftime('%Y-%m-%d-%H:00-%z')
to_juggler_date(date) == date \div 2

-----------------------------------------------------------------------------
(* calculate_weekends *)
(* Here a datetime is the number of minutes since 00:00 of a Monday; a number of      *)
(* workdays (workdays_passed, weeklymax) is a number of 1/480 days, a minute of a      *)
(* workday of 8 hours.                                                                 *)

\* Minutes of a day, of a workday (FACTOR seconds), and from 00:00 to time(hour=9)
DAY == 1440
WORKDAY == 480
NINE == 540

\* date.weekday(), Monday being 0
weekday(date) == (date \div DAY) % 7

\* (date - datetime.combine(date.date(), time(hour=9))).seconds, in minutes: the seconds of a
\* timedelta lie in 0 .. 86399, a negative difference has days = -1
timedelta_seconds(date) == ((date % DAY) - NINE) % DAY

\* calculate_weekends: [raised, weekend_count]; the floor division by 0 raises
\* ZeroDivisionError
calculate_weekends(date, workdays_passed, weeklymax) ==
    LET workday_percentage == timedelta_seconds(date)
        date_as_weekday == weekday(date) * WORKDAY + workday_percentage
        capped == IF date_as_weekday > weeklymax THEN weeklymax ELSE date_as_weekday
        remaining_workdays_passed == workdays_passed - capped
    IN  IF remaining_workdays_passed > 0
        THEN IF weeklymax = 0 THEN [raised |-> TRUE, weekend_count |-> 0]
             ELSE [raised |-> FALSE,
                   weekend_count |-> 1 + (remaining_workdays_passed \div weeklymax)]
        ELSE [raised |-> FALSE, weekend_count |-> 0]

-----------------------------------------------------------------------------
(* to_username and determine_username *)
(* A value passed to to_username is [is_str, s, user]: s is the string itself, or        *)
(* str(value) for a User object; user holds the attributes of the User object, each one *)
(* the empty string when absent or empty.                                               *)

\* The length from which to_username takes a string for an account ID
ACCOUNT_ID_LENGTH == 24

\* str.split('@')[0]
RECURSIVE before_at(_)
before_at(str) ==
    IF str = <<>> \/ Head(str) = "@" THEN <<>> ELSE <<Head(str)>> \o before_at(Tail(str))

\* determine_username: [raised, username]
determine_username(user) ==
    IF user.emailAddress # <<>>
    THEN [raised |-> FALSE, username |-> before_at(user.emailAddress)]
    ELSE IF user.name # <<>>
         THEN [raised |-> FALSE, username |-> user.name]
         ELSE IF user.displayName # <<>>
              THEN [raised |-> FALSE, username |-> <<"\"">> \o user.displayName \o <<"\"">>]
              ELSE [raised |-> TRUE, username |-> <<>>]

\* value.accountId if hasattr(value, 'accountId') else str(value)
user_id_of(value) ==
    IF ~value.is_str /\ value.user.accountId # None THEN Val(value.user.accountId) ELSE value.s

\* The dict with id_to_username_mapping[user_id] = username
mapping_set(mapping, user_id, username) ==
    [k \in DOMAIN mapping \cup {user_id} |-> IF k = user_id THEN username ELSE mapping[k]]

\* to_username past the test of the dict: [mapping, user_calls, raised, username],
\* user_calls being the calls of jirahandle.user it makes. users holds what jirahandle.user
\* returns; it raises JIRAError for an account ID it does not know.
to_username_uncached(mapping, users, value) ==
    LET user_id == user_id_of(value)
        kept == [mapping |-> mapping, user_calls |-> <<>>, raised |-> FALSE, username |-> <<>>]
        store(determined, user_calls) ==
            IF determined.raised THEN [kept EXCEPT !.user_calls = user_calls, !.raised = TRUE]
            ELSE [mapping |-> mapping_set(mapping, user_id, determined.username),
                  user_calls |-> user_calls, raised |-> FALSE,
                  username |-> determined.username]
    IN  IF ~value.is_str
        THEN store(determine_username(value.user), <<>>)
        ELSE IF Len(value.s) >= ACCOUNT_ID_LENGTH
             THEN IF user_id \in DOMAIN users
                  THEN store(determine_username(users[user_id]), <<user_id>>)
                  ELSE [kept EXCEPT !.user_calls = <<user_id>>, !.raised = TRUE]
             ELSE [kept EXCEPT !.username = value.s]

\* to_username without the test of the dict
to_username_without_test(mapping, users, value) == to_username_uncached(mapping, users, value)

\* to_username on the dict id_to_username_mapping
to_username_cached(mapping, users, value) ==
    IF user_id_of(value) \in DOMAIN mapping
    THEN [mapping |-> mapping, user_calls |-> <<>>, raised |-> FALSE,
          username |-> mapping[user_id_of(value)]]
    ELSE to_username_uncached(mapping, users, value)

-----------------------------------------------------------------------------
(* JugglerTaskProperty and its subclasses *)

FACTOR == 28800
MINIMAL_VALUE == 3600
EFFORT_DEFAULT_VALUE == MINIMAL_VALUE
ALLOCATE_DEFAULT_VALUE == "\"not assigned\""
DEFAULT_NAME == "property name"

\* JugglerTaskTime values: '' or a date token.
EmptyTime == [kind |-> "empty", v |-> 0]
DateTime(h) == [kind |-> "date", v |-> h]

\* JugglerTaskProperty.is_empty for the effort property:
\* not self.value or self.value == self.DEFAULT_VALUE
effort_is_empty(value) == value = None \/ Val(value) = 0 \/ Val(value) = EFFORT_DEFAULT_VALUE

\* JugglerTaskProperty.is_empty for the other kinds; "" is a None or empty allocate value
allocate_is_empty(value) == value = "" \/ value = ALLOCATE_DEFAULT_VALUE

depends_is_empty(value) == value = <<>>

time_is_empty(value) == value = EmptyTime

\* to_username for a string shorter than 24 characters that is not cached: the value itself.
to_username(value) == value

\* JugglerTaskEffort.load_from_jira_issue
effort_load_from_jira_issue(issue) ==
    IF issue.has_orig
    THEN IF issue.orig # None
         THEN LET logged_time == IF Truthy(issue.spent) THEN Val(issue.spent) ELSE 0
              IN  IF issue.status \in {"Closed", "Resolved"}
                  THEN IF logged_time # 0 THEN Some(logged_time) ELSE issue.orig
                  ELSE IF issue.rem # None
                       THEN IF Val(issue.rem) # 0 THEN issue.rem ELSE Some(MINIMAL_VALUE)
                       ELSE issue.orig
         ELSE Some(0)
    ELSE Some(EFFORT_DEFAULT_VALUE)

\* append_value without the membership test
append_value_always(value, v) == Append(value, v)

\* JugglerTaskDepends.append_value
append_value(value, v) == IF v \in Range(value) THEN value ELSE Append(value, v)

\* JugglerTaskDepends.load_from_jira_issue
RECURSIVE depends_load(_, _, _)
depends_load(issuelinks, links, value) ==
    IF issuelinks = <<>> THEN value
    ELSE LET link == Head(issuelinks)
             next == IF link.has_inward /\ link.type_inward \in links
                     THEN append_value(value, to_identifier(link.key))
                     ELSE IF ~link.has_inward /\ link.type_outward \in links
                          THEN append_value(value, to_identifier(link.key))
                          ELSE value
         IN  depends_load(Tail(issuelinks), links, next)

\* load_from_jira_issue that scans the links from the last to the first
depends_load_from_last(issue, links) == depends_load(Reverse(issue.issuelinks), links, <<>>)

depends_load_from_jira_issue(issue, links) == depends_load(issue.issuelinks, links, <<>>)

\* The list objects of JugglerTaskDepends: DEFAULT_VALUE is the list of the class, made once
\* for the process; own[p] is the list that load_from_jira_issue made for the property p;
\* value[p] tells which of the two the attribute 'value' of p refers to.
NoProperties == [DEFAULT_VALUE |-> <<>>, own |-> <<>>, value |-> <<>>]

\* self.value of a property
value_of(props, p) ==
    IF props.value[p] = "DEFAULT_VALUE" THEN props.DEFAULT_VALUE ELSE props.own[p]

\* JugglerTaskProperty.__init__ without an issue, and clear: self.value = self.DEFAULT_VALUE
property_clear(props, p) == [props EXCEPT !.value[p] = "DEFAULT_VALUE"]

\* JugglerTaskDepends.load_from_jira_issue on a property outside any task:
\* self.value = list(self.DEFAULT_VALUE), then the appends
property_load(props, p, issue, links) ==
    [props EXCEPT !.own[p] = depends_load(issue.issuelinks, links, props.DEFAULT_VALUE),
                  !.value[p] = "own"]

\* JugglerTaskDepends.append_value on the list object that self.value refers to
property_append_value(props, p, v) ==
    IF props.value[p] = "DEFAULT_VALUE"
    THEN [props EXCEPT !.DEFAULT_VALUE = append_value(@, v)]
    ELSE [props EXCEPT !.own[p] = append_value(@, v)]

\* a < b for two 'created' strings '<local time><offset>'
created_less(a, b) == a.local < b.local \/ (a.local = b.local /\ a.offset < b.offset)

\* parser.isoparse(change.created): an aware datetime, kept as its instant
isoparse(created) == created.local - created.offset

\* sorted(histories, key=attrgetter('created'), reverse=True): stable, descending.
RECURSIVE InsertDesc(_, _)
InsertDesc(sorted, change) ==
    IF sorted = <<>> THEN <<change>>
    ELSE IF created_less(Head(sorted).created, change.created) THEN <<change>> \o sorted
    ELSE <<Head(sorted)>> \o InsertDesc(Tail(sorted), change)

RECURSIVE SortedHistories(_)
SortedHistories(histories) ==
    IF histories = <<>> THEN <<>>
    ELSE InsertDesc(SortedHistories(SubSeq(histories, 1, Len(histories) - 1)),
                    histories[Len(histories)])

\* The items of the changes in scan order, each with its change's timestamp.
RECURSIVE ItemsOf(_)
ItemsOf(changes) ==
    IF changes = <<>> THEN <<>>
    ELSE [j \in 1..Len(Head(changes).items) |->
             [created |-> Head(changes).created, item |-> Head(changes).items[j]]]
         \o ItemsOf(Tail(changes))

\* JugglerTaskAllocate.load_from_jira_issue, the loop over the change history.
\* st = [value, before_resolved, returned]
RECURSIVE allocate_scan(_, _)
allocate_scan(items, st) ==
    IF items = <<>> \/ st.returned THEN st
    ELSE LET item == Head(items).item
             next ==
                IF item.field = "assignee"
                THEN IF ~st.before_resolved
                     THEN [st EXCEPT !.value = IF item.from # "" THEN to_username(item.from) ELSE ""]
                     ELSE [st EXCEPT !.value = to_username(item.to), !.returned = TRUE]
                ELSE IF item.field = "status" /\ item.toString \in {"approved", "resolved"}
                     THEN [st EXCEPT !.before_resolved = TRUE,
                                     !.returned = st.value # "" /\ st.value # ALLOCATE_DEFAULT_VALUE]
                     ELSE st
         IN  allocate_scan(Tail(items), next)

allocate_load_from_jira_issue(issue) ==
    LET init == [value |-> ALLOCATE_DEFAULT_VALUE, before_resolved |-> FALSE, returned |-> FALSE]
        st == IF issue.status \in {"Closed", "Resolved"}
              THEN allocate_scan(ItemsOf(SortedHistories(issue.histories)), init)
              ELSE init
    IN  IF st.returned THEN st.value
        ELSE IF st.value = "" \/ st.value = ALLOCATE_DEFAULT_VALUE
             THEN IF issue.assignee # "" THEN to_username(issue.assignee)
                  ELSE ALLOCATE_DEFAULT_VALUE
             ELSE st.value

-----------------------------------------------------------------------------
(* JugglerTask *)

\* JugglerTask.is_resolved
is_resolved(task) == task.issue.status \in {"Approved", "Resolved", "Closed"}

\* JugglerTask.determine_resolved_at_date
RECURSIVE resolved_scan(_, _)
resolved_scan(items, closed_at_date) ==
    IF items = <<>> THEN closed_at_date
    ELSE LET e == Head(items)
         IN  IF e.item.field = "status"
             THEN IF e.item.toString \in {"approved", "resolved"} THEN Some(isoparse(e.created))
                  ELSE IF e.item.toString = "closed" /\ closed_at_date = None
                       THEN resolved_scan(Tail(items), Some(isoparse(e.created)))
                       ELSE resolved_scan(Tail(items), closed_at_date)
             ELSE resolved_scan(Tail(items), closed_at_date)

determine_resolved_at_date(issue) == resolved_scan(ItemsOf(SortedHistories(issue.histories)), None)

\* JugglerTask.resolved_at_repr
resolved_at_repr(task) ==
    IF task.resolved_at_date # None THEN DateTime(to_juggler_date(Val(task.resolved_at_date)))
    ELSE EmptyTime

\* A sprint name is <word, number>; this one is the empty string
NoSprintName == [word |-> "", num |-> 0]

MAX_SUMMARY_LENGTH == 70

\* str.replace('\"', '\\\"') on a string kept as a sequence of characters
RECURSIVE replace_quote(_)
replace_quote(str) ==
    IF str = <<>> THEN <<>>
    ELSE (IF Head(str) = "\"" THEN <<"\\", "\"">> ELSE <<Head(str)>>) \o replace_quote(Tail(str))

\* The summary of load_from_jira_issue: quotes replaced, then cut to MAX_SUMMARY_LENGTH
load_summary(issue) ==
    LET summary == replace_quote(issue.summary)
    IN  IF Len(summary) > MAX_SUMMARY_LENGTH
        THEN SubSeq(summary, 1, MAX_SUMMARY_LENGTH) \o <<".", ".", ".">>
        ELSE summary

\* JugglerTask.__init__ followed by load_from_jira_issue
JugglerTask(issue, links) ==
    [key |-> issue.key,
     summary |-> load_summary(issue),
     issue |-> issue,
     parent_key |-> issue.parent,
     epic_key |-> issue.epic,
     is_epic |-> issue.issuetype = "epic",
     children |-> <<>>,
     resolved_at_date |-> IF issue.status \in {"Approved", "Resolved", "Closed"}
                          THEN determine_resolved_at_date(issue) ELSE None,
     allocate |-> allocate_load_from_jira_issue(issue),
     effort |-> effort_load_from_jira_issue(issue),
     depends |-> depends_load_from_jira_issue(issue, links),
     time |-> [name |-> DEFAULT_NAME, value |-> EmptyTime],
     sprint_name |-> NoSprintName,
     sprint_priority |-> 0,
     sprint_start_date |-> None]

\* JugglerTask.add_child
add_child(o, parent, child) ==
    IF child \in Range(o[parent].children) THEN o
    ELSE [o EXCEPT ![parent].children = Append(@, child)]

\* The object ids below a task, through one or more children links.
RECURSIVE Below(_, _, _)
Below(o, frontier, seen) ==
    LET next == UNION {Range(o[x].children) : x \in frontier} \ seen
    IN  IF next = {} THEN seen ELSE Below(o, next, seen \cup next)

Descendants(o, id) == Below(o, {id}, {})

\* The recursion of calculate_rolled_up_effort from a task never returns when a task at or
\* below it lies below itself (Python raises RecursionError).
RecursionLoops(o, id) == \E x \in Descendants(o, id) \cup {id} : x \in Descendants(o, x)

\* JugglerTask.calculate_rolled_up_effort, on a task below which no task lies below itself
RECURSIVE calculate_rolled_up_effort(_, _)
calculate_rolled_up_effort(o, id) ==
    IF o[id].children # <<>>
    THEN SeqSum([j \in 1..Len(o[id].children) |-> calculate_rolled_up_effort(o, o[id].children[j])])
    ELSE IF ~effort_is_empty(o[id].effort) THEN Val(o[id].effort) ELSE 0

-----------------------------------------------------------------------------
(* JiraJuggler.build_hierarchical_tasks *)

\* key in task_by_key, for task_by_key = {task.key: task for task in tasks}
InTaskByKey(o, ts, key) == \E j \in 1..Len(ts) : o[ts[j]].key = key

\* task_by_key[key]: a later task of the list overwrites an earlier one with the same key
task_by_key(o, ts, key) ==
    LET J == {j \in 1..Len(ts) : o[ts[j]].key = key}
    IN  ts[CHOOSE j \in J : \A k \in J : k <= j]

\* attach_children with the epic key taking precedence over the parent key
RECURSIVE attach_children_epic_first(_, _, _)
attach_children_epic_first(o, ts, j) ==
    IF j > Len(ts) THEN o
    ELSE LET task == o[ts[j]]
             next == IF task.epic_key # <<>> /\ InTaskByKey(o, ts, task.epic_key)
                     THEN add_child(o, task_by_key(o, ts, task.epic_key), ts[j])
                     ELSE IF task.parent_key # <<>> /\ InTaskByKey(o, ts, task.parent_key)
                          THEN add_child(o, task_by_key(o, ts, task.parent_key), ts[j])
                          ELSE o
         IN  attach_children_epic_first(next, ts, j + 1)

\* The first loop of build_hierarchical_tasks, from position j of the list on.
RECURSIVE attach_children(_, _, _)
attach_children(o, ts, j) ==
    IF j > Len(ts) THEN o
    ELSE LET task == o[ts[j]]
             next == IF task.parent_key # <<>> /\ InTaskByKey(o, ts, task.parent_key)
                     THEN add_child(o, task_by_key(o, ts, task.parent_key), ts[j])
                     ELSE IF task.epic_key # <<>> /\ InTaskByKey(o, ts, task.epic_key)
                          THEN add_child(o, task_by_key(o, ts, task.epic_key), ts[j])
                          ELSE o
         IN  attach_children(next, ts, j + 1)

\* _is_effectively_zero of _process_epic_logic
is_effectively_zero(child_task) ==
    LET fields == child_task.issue
        orig == IF fields.has_orig THEN fields.orig ELSE None
        rem == fields.rem
        eff == child_task.effort
    IN  /\ (orig = None \/ Val(orig) = 0)
        /\ (rem = None \/ Val(rem) = 0)
        /\ (eff # None /\ Val(eff) <= MINIMAL_VALUE)

\* The loop of _process_epic_logic, from position j of the list on.
\* st = [o, tasks_to_remove, raised]
RECURSIVE epic_loop(_, _, _)
epic_loop(st, ts, j) ==
    IF j > Len(ts) \/ st.raised THEN st
    ELSE LET id == ts[j]
             task == st.o[id]
             children_with_zero_effort ==
                 {c \in Range(task.children) : is_effectively_zero(st.o[c])}
             next ==
                 IF ~task.is_epic \/ task.children = <<>> THEN st
                 ELSE IF children_with_zero_effort # {}
                      THEN [st EXCEPT
                               !.o = [@ EXCEPT ![id].children = <<>>],
                               !.tasks_to_remove =
                                   @ \cup Range(task.children)
                                     \cup (IF task.effort # None /\ Val(task.effort) = 0
                                           THEN {id} ELSE {})]
                      ELSE \* rule 3 only logs, after summing the children's rolled-up efforts
                           [st EXCEPT !.raised = \E c \in Range(task.children) :
                                                     RecursionLoops(st.o, c)]
         IN  epic_loop(next, ts, j + 1)

\* JiraJuggler._process_epic_logic: [o, tasks, raised]
process_epic_logic(o, ts) ==
    LET st == epic_loop([o |-> o, tasks_to_remove |-> {}, raised |-> FALSE], ts, 1)
    IN  [o |-> st.o,
         tasks |-> SelectSeq(ts, LAMBDA id : id \notin st.tasks_to_remove),
         raised |-> st.raised]

\* "Container tasks are not allowed an effort attribute": the second loop of
\* build_hierarchical_tasks over the tasks that _process_epic_logic returned.
clear_container_effort(o, ts) ==
    [id \in DOMAIN o |->
        IF id \in Range(ts) /\ o[id].children # <<>>
        THEN [o[id] EXCEPT !.effort = None]
        ELSE o[id]]

\* is_child of the last loop of build_hierarchical_tasks; all is the list task_by_key indexes
is_child(o, all, task) ==
    \/ task.parent_key # <<>> /\ InTaskByKey(o, all, task.parent_key)
    \/ task.epic_key # <<>> /\ InTaskByKey(o, all, task.epic_key)

\* JiraJuggler.build_hierarchical_tasks: [o, tasks, raised]
build_hierarchical_tasks(o, ts) ==
    LET attached == attach_children(o, ts, 1)
        epics == process_epic_logic(attached, ts)
        cleared == clear_container_effort(epics.o, epics.tasks)
    IN  [o |-> cleared,
         tasks |-> SelectSeq(epics.tasks, LAMBDA id : ~is_child(cleared, ts, cleared[id])),
         raised |-> epics.raised]

-----------------------------------------------------------------------------
(* JiraJuggler.validate_tasks *)

\* JugglerTaskEffort.validate: st = [o, tasks, raised]
effort_validate(st, id) ==
    LET value == st.o[id].effort
    IN  IF value = None
        THEN [st EXCEPT !.raised = st.o[id].children = <<>>]   \* the assert
        ELSE IF Val(value) = 0
             THEN [st EXCEPT !.tasks = ListRemove(@, id)]
             ELSE IF Val(value) < MINIMAL_VALUE
                  THEN [st EXCEPT !.o = [@ EXCEPT ![id].effort = Some(MINIMAL_VALUE)]]
                  ELSE st

\* The loop of validate that stops after the first value it removes
RECURSIVE depends_prune_one(_, _, _)
depends_prune_one(value, snapshot, task_ids) ==
    IF snapshot = <<>> THEN value
    ELSE IF Head(snapshot) \notin task_ids THEN ListRemove(value, Head(snapshot))
    ELSE depends_prune_one(value, Tail(snapshot), task_ids)

\* for val in list(self.value): if val not in task_ids: self.value.remove(val)
RECURSIVE depends_prune(_, _, _)
depends_prune(value, snapshot, task_ids) ==
    IF snapshot = <<>> THEN value
    ELSE depends_prune(IF Head(snapshot) \notin task_ids THEN ListRemove(value, Head(snapshot))
                       ELSE value,
                       Tail(snapshot), task_ids)

\* JugglerTaskDepends.validate
depends_validate(st, id) ==
    LET task_ids == {to_identifier(st.o[t].key) : t \in Range(st.tasks)}
    IN  [st EXCEPT !.o = [@ EXCEPT ![id].depends = depends_prune(@, @, task_ids)]]

\* JugglerTaskTime.validate
time_validate(st, id) ==
    LET time == st.o[id].time
    IN  IF time.value # EmptyTime /\ time.name \notin {"start", "end"}
        THEN [st EXCEPT !.raised = TRUE]
        ELSE st

\* JugglerTask.validate
task_validate(st, id, property_identifier) ==
    CASE property_identifier = "allocate" -> st
      [] property_identifier = "effort" -> effort_validate(st, id)
      [] property_identifier = "depends" -> depends_validate(st, id)
      [] property_identifier = "time" -> time_validate(st, id)

\* for task in list(tasks): task.validate(tasks, property_identifier)
RECURSIVE validate_pass(_, _, _)
validate_pass(st, snapshot, property_identifier) ==
    IF snapshot = <<>> \/ st.raised THEN st
    ELSE validate_pass(task_validate(st, Head(snapshot), property_identifier),
                       Tail(snapshot), property_identifier)

RECURSIVE validate_passes(_, _)
validate_passes(st, property_identifiers) ==
    IF property_identifiers = <<>> \/ st.raised THEN st
    ELSE validate_passes(validate_pass(st, st.tasks, Head(property_identifiers)),
                         Tail(property_identifiers))

\* validate_tasks with the depends pass before the effort pass
validate_tasks_depends_first(o, ts) ==
    validate_passes([o |-> o, tasks |-> ts, raised |-> FALSE],
                    <<"allocate", "depends", "effort", "time">>)

\* JiraJuggler.validate_tasks: [o, tasks, raised]
validate_tasks(o, ts) ==
    validate_passes([o |-> o, tasks |-> ts, raised |-> FALSE],
                    <<"allocate", "effort", "depends", "time">>)

-----------------------------------------------------------------------------
(* Sorting: list.sort(key=cmp_to_key(compare)) *)

\* compare_status with the resolution dates compared the wrong way round
compare_status_latest_first(a, b) ==
    IF is_resolved(a) /\ ~is_resolved(b) THEN -1
    ELSE IF is_resolved(b) /\ ~is_resolved(a) THEN 1
    ELSE IF is_resolved(a) /\ is_resolved(b)
         THEN IF Val(a.resolved_at_date) > Val(b.resolved_at_date) THEN -1 ELSE 1
         ELSE 0

\* JiraJuggler.compare_status, when it returns
compare_status(a, b) ==
    IF is_resolved(a) /\ ~is_resolved(b) THEN -1
    ELSE IF is_resolved(b) /\ ~is_resolved(a) THEN 1
    ELSE IF is_resolved(a) /\ is_resolved(b)
         THEN IF Val(a.resolved_at_date) < Val(b.resolved_at_date) THEN -1 ELSE 1
         ELSE 0

\* a.resolved_at_date < b.resolved_at_date raises TypeError when one of them is None
compare_status_raises(a, b) ==
    is_resolved(a) /\ is_resolved(b) /\ (a.resolved_at_date = None \/ b.resolved_at_date = None)

\* str.lower() on the words sprint names are made of
Lower(word) ==
    CASE word = "Backlog" -> "backlog"
      [] word = "Sprint" -> "sprint"
      [] OTHER -> word

\* Alphabetical rank of the lower-case words
WordRank(word) == CASE word = "backlog" -> 1 [] word = "sprint" -> 2 [] OTHER -> 3

\* natsorted([a.sprint_name, b.sprint_name], alg=ns.IGNORECASE)[0] == a.sprint_name,
\* for two different names <word, number>
natsorted_first(an, bn) ==
    LET ak == WordRank(Lower(an.word))
        bk == WordRank(Lower(bn.word))
    IN  ak < bk \/ (ak = bk /\ an.num <= bn.num)

has_backlog(name) == Lower(name.word) = "backlog"

\* JiraJuggler.compare_sprint_priority
compare_sprint_priority(a, b) ==
    IF a.sprint_priority > b.sprint_priority THEN -1
    ELSE IF a.sprint_priority < b.sprint_priority THEN 1
    ELSE IF a.sprint_priority = 0 \/ a.sprint_name = b.sprint_name THEN 0
    ELSE IF (a.sprint_start_date = None) # (b.sprint_start_date = None)
         THEN IF b.sprint_start_date = None THEN -1 ELSE 1
    ELSE IF a.sprint_start_date = b.sprint_start_date
         THEN IF ~has_backlog(a.sprint_name) /\ has_backlog(b.sprint_name) THEN -1
              ELSE IF has_backlog(a.sprint_name) /\ ~has_backlog(b.sprint_name) THEN 1
              ELSE IF natsorted_first(a.sprint_name, b.sprint_name) THEN -1
              ELSE 1
    ELSE IF Val(a.sprint_start_date) < Val(b.sprint_start_date) THEN -1
    ELSE 1

\* K(x) < K(y) for K = cmp_to_key(compare): compare(x, y) < 0
ISLT(kind, o, x, y) ==
    IF kind = "status" THEN compare_status(o[x], o[y]) < 0
    ELSE compare_sprint_priority(o[x], o[y]) < 0

ISLT_raises(kind, o, x, y) == kind = "status" /\ compare_status_raises(o[x], o[y])

\* count_run of CPython's listsort: the length n of the run that starts the list, from the
\* n elements known to be in it; [n, raised]
RECURSIVE count_run(_, _, _, _, _)
count_run(kind, o, s, n, descending) ==
    IF n >= Len(s) THEN [n |-> n, raised |-> FALSE]
    ELSE IF ISLT_raises(kind, o, s[n + 1], s[n]) THEN [n |-> n, raised |-> TRUE]
    ELSE IF ISLT(kind, o, s[n + 1], s[n]) = descending
         THEN count_run(kind, o, s, n + 1, descending)
         ELSE [n |-> n, raised |-> FALSE]

\* The binary search of binarysort for the place of pivot in s[l .. r-1]; 0 when a
\* comparison raises
RECURSIVE bisect(_, _, _, _, _, _)
bisect(kind, o, s, pivot, l, r) ==
    IF l >= r THEN l
    ELSE LET p == l + ((r - l) \div 2)
         IN  IF ISLT_raises(kind, o, pivot, s[p]) THEN 0
             ELSE IF ISLT(kind, o, pivot, s[p]) THEN bisect(kind, o, s, pivot, l, p)
             ELSE bisect(kind, o, s, pivot, p + 1, r)

\* binarysort of CPython's listsort: s[1 .. start-1] is sorted; [s, raised]
RECURSIVE binarysort(_, _, _, _)
binarysort(kind, o, s, start) ==
    IF start > Len(s) THEN [s |-> s, raised |-> FALSE]
    ELSE LET l == bisect(kind, o, s, s[start], 1, start)
         IN  IF l = 0 THEN [s |-> s, raised |-> TRUE]
             ELSE binarysort(kind, o,
                             InsertAt(SubSeq(s, 1, start - 1), l, s[start])
                                 \o SubSeq(s, start + 1, Len(s)),
                             start + 1)

\* list.sort for a list shorter than 64 elements (one run, extended by binarysort): [s, raised]
list_sort(kind, o, s) ==
    IF Len(s) < 2 THEN [s |-> s, raised |-> FALSE]
    ELSE IF ISLT_raises(kind, o, s[2], s[1]) THEN [s |-> s, raised |-> TRUE]
    ELSE LET descending == ISLT(kind, o, s[2], s[1])
             run == count_run(kind, o, s, 2, descending)
             ordered == IF descending
                        THEN Reverse(SubSeq(s, 1, run.n)) \o SubSeq(s, run.n + 1, Len(s))
                        ELSE s
         IN  IF run.raised THEN [s |-> s, raised |-> TRUE]
             ELSE binarysort(kind, o, ordered, run.n + 1)

-----------------------------------------------------------------------------
(* JiraJuggler.sort_tasks_on_sprint *)

\* priorities of sort_tasks_on_sprint; 0 for a state that is not in the table
priorities(state) ==
    CASE state = "ACTIVE" -> 3 [] state = "FUTURE" -> 2 [] state = "CLOSED" -> 1 [] OTHER -> 0

\* str.upper() on the sprint states of Jira Cloud
Upper(state) ==
    CASE state = "active" -> "ACTIVE"
      [] state = "future" -> "FUTURE"
      [] state = "closed" -> "CLOSED"
      [] OTHER -> state

\* JiraJuggler.extract_start_date: None for '<null>', a missing or an unparsable date
extract_start_date(sprint_info) == sprint_info.startDate

\* The loop over the sprint entries of one task: st = [name, priority, start_date]
RECURSIVE sprint_scan(_, _)
sprint_scan(values, st) ==
    IF values = <<>> THEN st
    ELSE LET sprint_info == Head(values)
             prio == IF sprint_info.is_str THEN priorities(sprint_info.state)
                     ELSE priorities(Upper(sprint_info.state))
             next ==
                 IF prio > 0 /\ prio > st.priority
                 THEN IF sprint_info.is_str              \* Jira Server
                      THEN [name |-> sprint_info.name, priority |-> prio,
                            start_date |-> extract_start_date(sprint_info)]
                      ELSE [name |-> sprint_info.name, priority |-> prio,   \* Jira Cloud
                            start_date |-> IF sprint_info.startDate # None  \* hasattr
                                           THEN sprint_info.startDate
                                           ELSE st.start_date]
                 ELSE st
         IN  sprint_scan(Tail(values), next)

\* The first loop of sort_tasks_on_sprint
set_sprint_attributes(o, ts) ==
    [id \in DOMAIN o |->
        IF id \in Range(ts)
        THEN LET st == sprint_scan(o[id].issue.sprints,
                                   [name |-> NoSprintName, priority |-> 0, start_date |-> None])
             IN  [o[id] EXCEPT !.sprint_name = st.name,
                               !.sprint_priority = st.priority,
                               !.sprint_start_date = st.start_date]
        ELSE o[id]]

\* JiraJuggler.sort_tasks_on_sprint: [o, tasks, raised]
sort_tasks_on_sprint(o, ts) ==
    LET attributed == set_sprint_attributes(o, ts)
        sorted == list_sort("sprint", attributed, ts)
    IN  [o |-> attributed, tasks |-> sorted.s, raised |-> sorted.raised]

-----------------------------------------------------------------------------
(* JiraJuggler.link_to_preceding_task *)

\* id_to_task_map of link_to_preceding_task
InIdToTaskMap(o, ts, identifier) == \E j \in 1..Len(ts) : to_identifier(o[ts[j]].key) = identifier

id_to_task_map(o, ts, identifier) ==
    LET J == {j \in 1..Len(ts) : to_identifier(o[ts[j]].key) = identifier}
    IN  ts[CHOOSE j \in J : \A k \in J : k <= j]

\* depends_loop that never breaks
depends_loop_runs_to_end(o, ts, value) == "else"

\* for identifier in depends_property.value: if not id_to_task_map[identifier].is_resolved: break
\* "break", "else" (the loop ran to its end) or "raised" (KeyError)
RECURSIVE depends_loop(_, _, _)
depends_loop(o, ts, value) ==
    IF value = <<>> THEN "else"
    ELSE IF ~InIdToTaskMap(o, ts, Head(value)) THEN "raised"
    ELSE IF ~is_resolved(o[id_to_task_map(o, ts, Head(value))]) THEN "break"
    ELSE depends_loop(o, ts, Tail(value))

\* The start time of a chain head: the current date, or the current date moved back by the
\* time spent; v is the number of whole hours spent (days_spent = v / 8)
StartTime(task) ==
    IF Truthy(task.issue.spent)
    THEN [kind |-> "backdated", v |-> Val(task.issue.spent) \div 3600]
    ELSE [kind |-> "now", v |-> 0]

\* The effort of a task that gets 'start', left as it was
effort_without_logged(task) == task.effort

\* if task.issue.fields.timespent: effort_property.value += timespent / FACTOR
effort_plus_logged(task) ==
    IF Truthy(task.issue.spent) THEN Some(Val(task.effort) + Val(task.issue.spent))
    ELSE task.effort

\* link_task that keeps the links from Jira of a resolved task
link_task_keeps_links(st, ts, id) ==
    LET task == st.o[id]
    IN  IF is_resolved(task)
        THEN [st EXCEPT !.o = [@ EXCEPT ![id].time = [name |-> "end",
                                                      value |-> resolved_at_repr(task)]]]
        ELSE [st EXCEPT !.unresolved_tasks = [@ EXCEPT ![task.allocate] = id]]

\* The body of the loop of link_to_preceding_task for one task.
\* st = [o, unresolved_tasks, raised]; unresolved_tasks maps an assignee to the last task
\* of its list, 0 when the assignee is no key of the dict
link_task(st, ts, id) ==
    LET task == st.o[id]
        assignee == task.allocate
    IN  IF is_resolved(task)
        THEN [st EXCEPT !.o = [@ EXCEPT ![id].depends = <<>>,
                                        ![id].time = [name |-> "end",
                                                      value |-> resolved_at_repr(task)]]]
        ELSE IF st.unresolved_tasks[assignee] # 0
             THEN LET preceding_task == st.o[st.unresolved_tasks[assignee]]
                  IN  [st EXCEPT !.o = [@ EXCEPT ![id].depends =
                                           append_value(@, to_identifier(preceding_task.key))],
                                 !.unresolved_tasks = [@ EXCEPT ![assignee] = id]]
             ELSE LET outcome == depends_loop(st.o, ts, task.depends)
                  IN  IF outcome = "raised" THEN [st EXCEPT !.raised = TRUE]
                      ELSE IF outcome = "break"
                           THEN [st EXCEPT !.unresolved_tasks = [@ EXCEPT ![assignee] = id]]
                           ELSE IF Truthy(task.issue.spent) /\ task.effort = None
                                THEN [st EXCEPT !.raised = TRUE]   \* None += float
                                ELSE [st EXCEPT
                                        !.o = [@ EXCEPT
                                            ![id].effort = effort_plus_logged(task),
                                            ![id].time = [name |-> "start",
                                                          value |-> StartTime(task)]],
                                        !.unresolved_tasks = [@ EXCEPT ![assignee] = id]]

RECURSIVE link_loop(_, _, _)
link_loop(st, ts, j) ==
    IF j > Len(ts) \/ st.raised THEN st
    ELSE link_loop(link_task(st, ts, ts[j]), ts, j + 1)

\* JiraJuggler.link_to_preceding_task: [o, raised]
link_to_preceding_task(o, ts) ==
    LET st == link_loop([o |-> o,
                         unresolved_tasks |-> [a \in {o[t].allocate : t \in Range(ts)} |-> 0],
                         raised |-> FALSE], ts, 1)
    IN  [o |-> st.o, raised |-> st.raised]

-----------------------------------------------------------------------------
(* __str__: the text of properties and tasks                                *)
(* A text is a sequence of atoms: blanks, newlines, quotes, backslashes and *)
(* braces are atoms of their own, a word without any of these is one atom.  *)

TAB == <<" ", " ", " ", " ">>

RECURSIVE Concat(_)
Concat(texts) == IF texts = <<>> THEN <<>> ELSE Head(texts) \o Concat(Tail(texts))

IsSpace(atom) == atom \in {" ", "\n"}

\* str.lstrip() and str.strip()
lstrip(text) ==
    LET J == {n \in 1..Len(text) : ~IsSpace(text[n])}
    IN  IF J = {} THEN <<>>
        ELSE SubSeq(text, CHOOSE n \in J : \A m \in J : n <= m, Len(text))

strip(text) ==
    LET J == {n \in 1..Len(text) : ~IsSpace(text[n])}
    IN  IF J = {} THEN <<>>
        ELSE SubSeq(text, CHOOSE n \in J : \A m \in J : n <= m,
                          CHOOSE n \in J : \A m \in J : m <= n)

\* str.split("\n"): the pieces between the newlines, one more than there are newlines
split(text) ==
    LET P == {n \in 1..Len(text) : text[n] = "\n"}
        \* the position of the k-th newline; 0 and Len(text) + 1 bound the text
        At(k) == IF k = 0 THEN 0
                 ELSE IF k > Cardinality(P) THEN Len(text) + 1
                 ELSE CHOOSE p \in P : Cardinality({q \in P : q < p}) = k - 1
    IN  [k \in 1..(Cardinality(P) + 1) |-> SubSeq(text, At(k - 1) + 1, At(k) - 1)]

\* "\n".join(lines)
RECURSIVE join(_)
join(lines) ==
    IF lines = <<>> THEN <<>>
    ELSE IF Len(lines) = 1 THEN Head(lines)
    ELSE Head(lines) \o <<"\n">> \o join(Tail(lines))

\* TEMPLATE.format(prop=name, value=value) of JugglerTaskProperty
property_line(name, value) == TAB \o <<name, " ">> \o value \o <<"\n">>

\* The text of an allocate value; the default value holds quotes and a blank
allocate_text(value) ==
    IF value = ALLOCATE_DEFAULT_VALUE THEN <<"\"", "not", " ", "assigned", "\"">>
    ELSE IF value = "" THEN <<>> ELSE <<value>>

\* JugglerTaskProperty.__str__ for the allocate property, whose value is a string
allocate_str(task) == property_line("allocate", allocate_text(task.allocate))

\* JugglerTaskProperty.__str__ for the effort property: the number (here in 1/FACTOR days)
\* and the unit
effort_str(task) ==
    IF task.effort # None THEN property_line("effort", <<ToString(Val(task.effort)), "d">>)
    ELSE <<>>

\* depends_str with the test of JugglerTaskProperty.__str__ (is not None) for the truth test
depends_str_unless_none(task) ==
    property_line("depends",
                  Concat([n \in 1..Len(task.depends) |->
                             (IF n > 1 THEN <<",", " ">> ELSE <<>>)
                             \o <<"!">> \o task.depends[n]]))

\* JugglerTaskDepends.__str__: '!id1, !id2'
depends_str(task) ==
    IF task.depends # <<>>
    THEN property_line("depends",
                       Concat([n \in 1..Len(task.depends) |->
                                  (IF n > 1 THEN <<",", " ">> ELSE <<>>)
                                  \o <<"!">> \o task.depends[n]]))
    ELSE <<>>

\* The text of a time value: a date, or '%{<date> - <days>d}'
time_text(value) ==
    CASE value.kind = "date" -> <<ToString(value.v)>>
      [] value.kind = "now" -> <<"now">>
      [] value.kind = "backdated" ->
            <<"%", "{", "now", " ", "-", " ", ToString(value.v), "d", "}">>
      [] OTHER -> <<>>

\* JugglerTaskTime.__str__
time_str(task) ==
    IF task.time.value # EmptyTime THEN property_line(task.time.name, time_text(task.time.value))
    ELSE <<>>

\* indent_child that joins the lines of the child as they are
indent_child_as_is(child_str) ==
    LET lines == SelectSeq(split(child_str), LAMBDA line : strip(line) # <<>>)
    IN  <<"\n">> \o join(lines)

\* "\n" + "\n".join(TAB + line for line in child_str.split("\n") if line.strip())
indent_child(child_str) ==
    LET lines == SelectSeq(split(child_str), LAMBDA line : strip(line) # <<>>)
    IN  <<"\n">> \o join([n \in 1..Len(lines) |-> TAB \o lines[n]])

\* JugglerTask.__str__ of a task below which no task lies below itself
RECURSIVE task_str(_, _)
task_str(o, id) ==
    LET task == o[id]
        props == allocate_str(task) \o effort_str(task) \o depends_str(task) \o time_str(task)
        children_content ==
            Concat([n \in 1..Len(task.children) |->
                       indent_child(strip(task_str(o, task.children[n])))])
    IN  <<"\n", "task", " ">> \o to_identifier(task.key) \o <<" ", "\"">>
        \o replace_quote(task.summary) \o <<"\"", " ", "{", "\n">>
        \o TAB \o <<"Jira", " ", "\"">> \o task.key \o <<"\"", "\n">>
        \o props \o <<"\n">>
        \o children_content \o <<"\n", "}", "\n">>

-----------------------------------------------------------------------------
(* The search loop of load_issues_from_jira *)

JIRA_PAGE_SIZE == 50

\* The issues that the n-th call of enhanced_search_issues returns: the server cuts the
\* result into pages of at most maxResults issues
search_page(issues, h, n) ==
    LET size == IF h.page_size < JIRA_PAGE_SIZE THEN h.page_size ELSE JIRA_PAGE_SIZE
        last == IF n * size < Len(issues) THEN n * size ELSE Len(issues)
    IN  [issues |-> SubSeq(issues, (n - 1) * size + 1, last),
         nextPageToken |-> last < Len(issues)]

\* fetch_loop that leaves the loop on a JIRAError and goes on with the pages it has
RECURSIVE fetch_loop_keeps_pages(_, _, _, _)
fetch_loop_keeps_pages(issues, h, links, st) ==
    IF h.fail_page = st.page THEN st
    ELSE LET result == search_page(issues, h, st.page)
             next == [st EXCEPT !.mapped = @ \o [j \in 1..Len(result.issues) |->
                                                     JugglerTask(result.issues[j], links)],
                                !.page = @ + 1]
         IN  IF Len(result.issues) <= 0 THEN st
             ELSE IF result.nextPageToken THEN fetch_loop_keeps_pages(issues, h, links, next)
             ELSE next

\* while True: the call numbered h.fail_page raises JIRAError
\* st = [mapped, page, failed]; failed: the loop has returned None
RECURSIVE fetch_loop(_, _, _, _)
fetch_loop(issues, h, links, st) ==
    IF h.fail_page = st.page THEN [st EXCEPT !.failed = TRUE]
    ELSE LET result == search_page(issues, h, st.page)
             next == [st EXCEPT !.mapped = @ \o [j \in 1..Len(result.issues) |->
                                                     JugglerTask(result.issues[j], links)],
                                !.page = @ + 1]
         IN  IF Len(result.issues) <= 0 THEN st
             ELSE IF result.nextPageToken THEN fetch_loop(issues, h, links, next)
             ELSE next

-----------------------------------------------------------------------------
(* The issues of the result set *)

\* The link types of the default configuration (Blocker inward, Dependency outward)
DefaultLinks == {"is blocked by", "depends on"}

BlockedBy(key) ==
    [has_inward |-> TRUE, type_inward |-> "is blocked by", type_outward |-> "blocks", key |-> key]

\* The 'created' string of a change made at the given instant, in UTC
Utc(instant) == [local |-> instant, offset |-> 0]

StatusItem(toString) == [field |-> "status", from |-> "", to |-> "", toString |-> toString]

\* from is "" when the item has no such attribute or a null one
AssigneeItem(from, to) == [field |-> "assignee", from |-> from, to |-> to, toString |-> ""]

\* A change of the history with one status item
StatusChange(created, toString) == [created |-> Utc(created), items |-> <<StatusItem(toString)>>]

\* An open issue with an estimate of a quarter of a day and nothing else
PlainIssue(i) ==
    [key |-> Key(i),
     summary |-> <<"s">>,
     status |-> "Open",
     has_orig |-> TRUE, orig |-> Some(7200), rem |-> None, spent |-> None,
     issuelinks |-> <<>>,
     parent |-> None, epic |-> None, issuetype |-> "task",
     assignee |-> "alice",
     histories |-> <<>>,
     sprints |-> <<>>]

\* output: juggle is given the name of an output file
NoOptions ==
    [enable_epics |-> FALSE, depend_on_preceding |-> FALSE, sprint_field_name |-> FALSE,
     links |-> DefaultLinks, output |-> FALSE]

\* A search that returns all issues in one page and never fails
OnePage == [page_size |-> JIRA_PAGE_SIZE, fail_page |-> 0]

\* The state before juggle runs on the given result set
StartWith(issues, options, h) ==
    /\ jira = issues
    /\ handle = h
    /\ opts = options
    /\ obj = <<>>
    /\ tasks = <<>>
    /\ out = None
    /\ pc = "start"
    /\ id_to_username_mapping = <<>>
    /\ returned = <<>>
    /\ weekends = None
    /\ depends_properties = NoProperties

Start(issues, options) == StartWith(issues, options, OnePage)

-----------------------------------------------------------------------------
(* JiraJuggler.load_issues_from_jira, one action for each call it makes *)

\* The search loop: a JugglerTask for every issue, in result order; "failed" when the loop
\* returns None
FetchAndMap ==
    /\ pc = "start"
    /\ LET r == fetch_loop(jira, handle, opts.links,
                           [mapped |-> <<>>, page |-> 1, failed |-> FALSE])
       IN  /\ obj' = r.mapped
           /\ tasks' = [i \in 1..Len(r.mapped) |-> i]
           /\ pc' = IF r.failed THEN "failed" ELSE "mapped"
    /\ UNCHANGED <<depends_properties, id_to_username_mapping, returned, weekends, jira, handle, opts, out>>

\* BuildHierarchy without the test of enable_epics
BuildHierarchyAlways ==
    /\ pc = "mapped"
    /\ LET r == build_hierarchical_tasks(obj, tasks)
       IN  /\ obj' = r.o
           /\ tasks' = r.tasks
           /\ pc' = IF r.raised THEN "raised" ELSE "built"
    /\ UNCHANGED <<depends_properties, id_to_username_mapping, returned, weekends, jira, handle, opts, out>>

\* if enable_epics: tasks = self.build_hierarchical_tasks(tasks)
BuildHierarchy ==
    /\ pc = "mapped"
    /\ LET r == IF opts.enable_epics THEN build_hierarchical_tasks(obj, tasks)
                ELSE [o |-> obj, tasks |-> tasks, raised |-> FALSE]
       IN  /\ obj' = r.o
           /\ tasks' = r.tasks
           /\ pc' = IF r.raised THEN "raised" ELSE "built"
    /\ UNCHANGED <<depends_properties, id_to_username_mapping, returned, weekends, jira, handle, opts, out>>

\* self.validate_tasks(tasks)
ValidateTasks ==
    /\ pc = "built"
    /\ LET r == validate_tasks(obj, tasks)
       IN  /\ obj' = r.o
           /\ tasks' = r.tasks
           /\ pc' = IF r.raised THEN "raised" ELSE "validated"
    /\ UNCHANGED <<depends_properties, id_to_username_mapping, returned, weekends, jira, handle, opts, out>>

\* if sprint_field_name: self.sort_tasks_on_sprint(tasks, sprint_field_name)
SortOnSprint ==
    /\ pc = "validated"
    /\ LET r == IF opts.sprint_field_name THEN sort_tasks_on_sprint(obj, tasks)
                ELSE [o |-> obj, tasks |-> tasks, raised |-> FALSE]
       IN  /\ obj' = r.o
           /\ tasks' = r.tasks
           /\ pc' = IF r.raised THEN "raised" ELSE "sprint_sorted"
    /\ UNCHANGED <<depends_properties, id_to_username_mapping, returned, weekends, jira, handle, opts, out>>

\* tasks.sort(key=cmp_to_key(self.compare_status))
SortOnStatus ==
    /\ pc = "sprint_sorted"
    /\ LET r == list_sort("status", obj, tasks)
       IN  /\ tasks' = r.s
           /\ pc' = IF r.raised THEN "raised" ELSE "status_sorted"
    /\ UNCHANGED <<depends_properties, id_to_username_mapping, returned, weekends, jira, handle, opts, obj, out>>

\* if depend_on_preceding: self.link_to_preceding_task(tasks, **kwargs); return tasks
LinkToPreceding ==
    /\ pc = "status_sorted"
    /\ LET r == IF opts.depend_on_preceding THEN link_to_preceding_task(obj, tasks)
                ELSE [o |-> obj, raised |-> FALSE]
       IN  /\ obj' = r.o
           /\ pc' = IF r.raised THEN "raised" ELSE "done"
    /\ UNCHANGED <<depends_properties, id_to_username_mapping, returned, weekends, jira, handle, opts, tasks, out>>

\* juggle, after load_issues_from_jira has returned the list or None
Juggle ==
    /\ pc \in {"done", "failed"}
    /\ out' = IF pc = "done" /\ tasks # <<>> /\ opts.output
              THEN Some(Concat([n \in 1..Len(tasks) |-> task_str(obj, tasks[n])]))
              ELSE out
    /\ pc' = "juggled"
    /\ UNCHANGED <<depends_properties, id_to_username_mapping, returned, weekends, jira, handle, opts, obj, tasks>>

\* JiraJuggler.__init__: a new instance in the same process, with a new jirahandle
Construct ==
    /\ id_to_username_mapping' = <<>>
    /\ returned' = <<>>
    /\ handle' = [handle EXCEPT !.user_calls = <<>>]
    /\ UNCHANGED <<depends_properties, weekends, jira, opts, obj, tasks, out, pc>>

\* One call of to_username; an exception it raises is caught by the caller
ToUsername(value) ==
    /\ Len(returned) < MaxCalls
    /\ LET r == to_username_cached(id_to_username_mapping, handle.users, value)
       IN  /\ id_to_username_mapping' = r.mapping
           /\ handle' = [handle EXCEPT !.user_calls = @ \o r.user_calls]
           /\ returned' = Append(returned, [user_id |-> user_id_of(value), raised |-> r.raised,
                                            username |-> r.username])
    /\ UNCHANGED <<depends_properties, weekends, jira, opts, obj, tasks, out, pc>>

\* The call of calculate_weekends on the arguments at hand
CalculateWeekends ==
    /\ weekends # None
    /\ Val(weekends).outcome = None
    /\ weekends' = Some([Val(weekends) EXCEPT
                            !.outcome = Some(calculate_weekends(Val(weekends).date,
                                                                Val(weekends).workdays_passed,
                                                                Val(weekends).weeklymax))])
    /\ UNCHANGED <<depends_properties, id_to_username_mapping, returned, jira, handle, opts, obj, tasks, out, pc>>

\* JugglerTaskDepends() or clear() on a property
PropertyClear(p) ==
    /\ depends_properties' = property_clear(depends_properties, p)
    /\ UNCHANGED <<id_to_username_mapping, returned, weekends, jira, handle, opts, obj, tasks,
                   out, pc>>

\* load_from_jira_issue on a property
PropertyLoad(p, issue) ==
    /\ depends_properties' = property_load(depends_properties, p, issue, opts.links)
    /\ UNCHANGED <<id_to_username_mapping, returned, weekends, jira, handle, opts, obj, tasks,
                   out, pc>>

\* append_value on a property
PropertyAppendValue(p, v) ==
    /\ depends_properties' = property_append_value(depends_properties, p, v)
    /\ UNCHANGED <<id_to_username_mapping, returned, weekends, jira, handle, opts, obj, tasks,
                   out, pc>>

Next ==
    \/ FetchAndMap
    \/ BuildHierarchy
    \/ ValidateTasks
    \/ SortOnSprint
    \/ SortOnStatus
    \/ LinkToPreceding
    \/ Juggle

-----------------------------------------------------------------------------------------------------------------------------------------------------
(* Hierarchy: result sets with parent and epic references, hierarchy support enabled *)

\* An issue names as its parent nothing, a key outside the result set or the first issue,
\* and as its epic nothing or the issue before it
HierChoices ==
    [parent : {"none", "outside", "first"}, epic : BOOLEAN, issuetype : {"epic", "task"},
     orig : {None, Some(7200)}]

HierIssue(i, c) ==
    [PlainIssue(i) EXCEPT
        !.parent = CASE c.parent = "none" -> None
                     [] c.parent = "outside" -> OutsideKey
                     [] c.parent = "first" -> Key(1),
        !.epic = IF c.epic THEN Key(i - 1) ELSE None,
        !.issuetype = c.issuetype,
        !.orig = c.orig]

InitHier ==
    \E c \in [TaskIds -> HierChoices] :
        /\ c[1].parent # "first" /\ ~c[1].epic
        /\ Start([i \in TaskIds |-> HierIssue(i, c[i])],
                 [NoOptions EXCEPT !.enable_epics = TRUE])

SpecHier == InitHier /\ [][Next]_vars

-----------------------------------------------------------------------------
(* Estimates under hierarchy: parents with estimated, unestimated and linked children *)

EpicChoices ==
    [parent : BOOLEAN, issuetype : {"epic", "task"}, orig : {None, Some(3600), Some(7200)},
     spent : {None, Some(3600)}, linked : BOOLEAN]

EpicIssue(i, c) ==
    [PlainIssue(i) EXCEPT
        !.parent = IF c.parent THEN Key(i - 1) ELSE None,
        !.issuetype = c.issuetype,
        !.orig = c.orig,
        !.spent = c.spent,
        !.issuelinks = IF c.linked THEN <<BlockedBy(OutsideKey)>> ELSE <<>>]

InitEpic ==
    \E c \in [TaskIds -> EpicChoices] :
        /\ ~c[1].parent
        /\ Start([i \in TaskIds |-> EpicIssue(i, c[i])],
                 [NoOptions EXCEPT !.enable_epics = TRUE, !.depend_on_preceding = TRUE])

SpecEpic == InitEpic /\ [][Next]_vars

-----------------------------------------------------------------------------
(* Flat output: the same references with hierarchy support disabled *)

\* <orig, spent>
FlatEstimates ==
    {<<None, None>>, <<Some(1800), None>>, <<Some(7200), None>>, <<Some(7200), Some(3600)>>}

FlatChoices == [ref : {"none", "parent", "epic"}, estimate : FlatEstimates]

FlatIssue(i, c) ==
    [PlainIssue(i) EXCEPT
        !.parent = IF c.ref = "parent" THEN Key(1) ELSE None,
        !.epic = IF c.ref = "epic" THEN Key(1) ELSE None,
        !.issuetype = IF i = 1 THEN "epic" ELSE "task",
        !.orig = c.estimate[1],
        !.spent = c.estimate[2]]

InitFlat ==
    \E dep \in BOOLEAN :
    \E c \in [TaskIds -> FlatChoices] :
        Start([i \in TaskIds |-> FlatIssue(i, c[i])],
              [NoOptions EXCEPT !.depend_on_preceding = dep])

SpecFlat == InitFlat /\ [][Next]_vars

-----------------------------------------------------------------------------
(* Ordering: open and resolved issues, with and without sprint sorting *)

\* <status, histories>
Resolutions(dates) ==
    {<<"Open", <<>>>>, <<"Closed", <<>>>>}
    \cup {<<"Resolved", <<StatusChange(d, "resolved")>>>> : d \in dates}

\* Sprint entries as Jira Cloud returns them; startDate is None when the entry has no
\* such attribute
CloudSprint(state, num, startDate) ==
    [is_str |-> FALSE, state |-> state, name |-> [word |-> "Sprint", num |-> num],
     startDate |-> startDate]

\* Sprint entries as Jira Server returns them (a string); startDate is None for '<null>'
ServerSprint(state, num, startDate) ==
    [is_str |-> TRUE, state |-> state, name |-> [word |-> "Sprint", num |-> num],
     startDate |-> startDate]

OrderChoices == [resolution : Resolutions(0..MaxDate), in_sprint : BOOLEAN]

OrderIssue(i, c) ==
    [PlainIssue(i) EXCEPT
        !.status = c.resolution[1],
        !.histories = c.resolution[2],
        !.sprints = IF c.in_sprint THEN <<CloudSprint("active", 1, Some(0))>> ELSE <<>>]

InitOrder ==
    \E sprint \in BOOLEAN :
    \E c \in [TaskIds -> OrderChoices] :
        Start([i \in TaskIds |-> OrderIssue(i, c[i])],
              [NoOptions EXCEPT !.sprint_field_name = sprint])

SpecOrder == InitOrder /\ [][Next]_vars

-----------------------------------------------------------------------------
(* Sprints: issues in closed, future and active sprints, with and without start dates *)

SprintCatalog(cloud) ==
    LET Entry(state, num, startDate) ==
            IF cloud THEN CloudSprint(state, num, startDate)
            ELSE ServerSprint(Upper(state), num, startDate)
    IN  <<Entry("closed", 1, Some(0)), Entry("future", 2, None),
          Entry("future", 3, Some(MaxDate)), Entry("active", 4, Some(1))>>

\* The sprint fields: up to two entries of the catalog, the older one first
SprintFields(cloud) ==
    LET cat == SprintCatalog(cloud)
    IN  {<<>>} \cup {<<cat[a]>> : a \in 1..Len(cat)}
        \cup {<<cat[a], cat[b]>> : a \in 1..Len(cat), b \in 2..Len(cat)}

InitSprint ==
    \E cloud \in BOOLEAN :
    \E c \in [TaskIds -> SprintFields(cloud)] :
        Start([i \in TaskIds |-> [PlainIssue(i) EXCEPT !.sprints = c[i]]],
              [NoOptions EXCEPT !.sprint_field_name = TRUE])

SpecSprint == InitSprint /\ [][Next]_vars

-----------------------------------------------------------------------------
(* Chaining: open and resolved issues of two assignees, linked to one another *)

ChainChoices ==
    [resolution : Resolutions({0, MaxDate}), assignee : {"alice", "bob"}, linked : BOOLEAN]

\* A linked issue is blocked by the next issue of the result set (the first, for the last)
ChainIssue(i, c) ==
    [PlainIssue(i) EXCEPT
        !.status = c.resolution[1],
        !.histories = c.resolution[2],
        !.assignee = c.assignee,
        !.issuelinks = IF c.linked THEN <<BlockedBy(Key((i % NumTasks) + 1))>> ELSE <<>>]

InitChain ==
    \E c \in [TaskIds -> ChainChoices] :
        Start([i \in TaskIds |-> ChainIssue(i, c[i])],
              [NoOptions EXCEPT !.depend_on_preceding = TRUE])

SpecChain == InitChain /\ [][Next]_vars

-----------------------------------------------------------------------------
(* Estimates: an issue with every combination of status and time tracking fields *)

\* seconds, or None for a null field
Estimates == {None, Some(0), Some(1800), Some(7200)}

EstimateChoices ==
    [status : {"Open", "Closed", "Resolved"}, has_orig : BOOLEAN, orig : Estimates,
     rem : Estimates, spent : {None, Some(0), Some(3600)}]

InitEstimate ==
    \E c \in EstimateChoices :
        /\ ~c.has_orig => c.orig = None
        /\ Start([i \in TaskIds |->
                    IF i = 1
                    THEN [PlainIssue(1) EXCEPT !.status = c.status, !.has_orig = c.has_orig,
                                               !.orig = c.orig, !.rem = c.rem, !.spent = c.spent]
                    ELSE PlainIssue(i)],
                 NoOptions)

SpecEstimate == InitEstimate /\ [][Next]_vars

-----------------------------------------------------------------------------
(* Histories: an issue with a change history of reassignments and status transitions *)

Assignees == {"alice", "bob"}

\* What a change of the history does: it assigns the issue to someone else or moves it to
\* a status
HistoryEvents == Assignees \cup {"resolved", "closed", "analyzed"}

\* The assignee after the first n events, for an issue created with assignee a0
AssigneeAfter(a0, events, n) ==
    LET J == {m \in 1..n : events[m] \in Assignees}
    IN  IF J = {} THEN a0 ELSE events[CHOOSE m \in J : \A k \in J : k <= m]

\* The n-th change is made at instant n; Jira prints it in the user's time zone, which is
\* on summer time (UTC+2) up to the change numbered `switch` and on winter time (UTC+1)
\* after it
CreatedAt(n, switch) ==
    LET offset == IF n <= switch THEN 4 ELSE 2
    IN  [local |-> n + offset, offset |-> offset]

HistoryOf(a0, events, switch) ==
    [n \in 1..Len(events) |->
        [created |-> CreatedAt(n, switch),
         items |-> <<IF events[n] \in Assignees
                     THEN AssigneeItem(AssigneeAfter(a0, events, n - 1), events[n])
                     ELSE StatusItem(events[n])>>]]

HistoryIssue(status, a0, events, switch) ==
    [PlainIssue(1) EXCEPT
        !.status = status,
        !.assignee = AssigneeAfter(a0, events, Len(events)),
        !.histories = HistoryOf(a0, events, switch)]

\* The result sets whose first issue has a history that switches to winter time after one of
\* the changes numbered in `switches`
Histories(switches) ==
    \E status \in {"Open", "Closed", "Resolved"} :
    \E a0 \in Assignees \cup {""} :
    \E n \in 0..MaxHistory :
    \E events \in [1..n -> HistoryEvents] :
    \E switch \in switches :
        /\ switch <= n
        /\ \A m \in 1..n : events[m] # AssigneeAfter(a0, events, m - 1)
        /\ Start([i \in TaskIds |-> IF i = 1 THEN HistoryIssue(status, a0, events, switch)
                                    ELSE PlainIssue(i)],
                 NoOptions)

\* all changes on winter time
InitHistory == Histories({0})

SpecHistory == InitHistory /\ [][Next]_vars

\* histories across the end of summer time
InitDst == Histories(0..MaxHistory)

SpecDst == InitDst /\ [][Next]_vars

-----------------------------------------------------------------------------
(* Properties: assigned and unassigned, estimated and unestimated, linked and nested issues *)

PropertyChoices ==
    [parent : BOOLEAN, orig : {None, Some(3600)}, assignee : {"", "alice"}, linked : BOOLEAN]

\* A linked issue is blocked by the next issue of the result set (the first, for the last)
PropertyIssue(i, c) ==
    [PlainIssue(i) EXCEPT
        !.parent = IF c.parent THEN Key(i - 1) ELSE None,
        !.orig = c.orig,
        !.assignee = c.assignee,
        !.issuelinks = IF c.linked THEN <<BlockedBy(Key((i % NumTasks) + 1))>> ELSE <<>>]

InitProperty ==
    \E c \in [TaskIds -> PropertyChoices] :
        /\ ~c[1].parent
        /\ Start([i \in TaskIds |-> PropertyIssue(i, c[i])],
                 [NoOptions EXCEPT !.enable_epics = TRUE, !.depend_on_preceding = TRUE])

SpecProperty == InitProperty /\ [][Next]_vars

-----------------------------------------------------------------------------
(* Summaries: an issue whose summary holds double quotes, short or about as long as the *)
(* longest summary that is not cut; the issue is the child of the one before it          *)

\* `length` characters of no special meaning
Filler(length) == [n \in 1..length |-> "x"]

Tails == UNION {[1..n -> {"x", "\""}] : n \in 0..MaxTail}

InitSummary ==
    \E enable_epics \in BOOLEAN :
    \E length \in {0, MAX_SUMMARY_LENGTH - 2} :
    \E tail \in Tails :
        Start([i \in TaskIds |->
                  IF i = 2
                  THEN [PlainIssue(i) EXCEPT !.parent = Key(1),
                                             !.summary = Filler(length) \o tail]
                  ELSE PlainIssue(i)],
              [NoOptions EXCEPT !.enable_epics = enable_epics, !.output = TRUE])

SpecSummary == InitSummary /\ [][Next]_vars

-----------------------------------------------------------------------------
(* Pruning: issues without estimate or with a low one, linked to their neighbours *)

PruneChoices ==
    [orig : {None, Some(1800), Some(7200)}, previous : BOOLEAN, next : BOOLEAN]

\* An issue is blocked by the issue before it, the issue after it (the result set taken as
\* a ring), both or none
PruneIssue(i, c) ==
    [PlainIssue(i) EXCEPT
        !.orig = c.orig,
        !.issuelinks =
            (IF c.previous THEN <<BlockedBy(Key(((i + NumTasks - 2) % NumTasks) + 1))>>
             ELSE <<>>)
            \o (IF c.next THEN <<BlockedBy(Key((i % NumTasks) + 1))>> ELSE <<>>)]

InitPrune ==
    \E c \in [TaskIds -> PruneChoices] :
        Start([i \in TaskIds |-> PruneIssue(i, c[i])], NoOptions)

SpecPrune == InitPrune /\ [][Next]_vars

-----------------------------------------------------------------------------
(* Nesting: chains and fans of parents and children, chained by assignee *)

NestChoices ==
    [parent : {"none", "first", "previous"}, orig : {None, Some(7200)},
     assignee : {"", "alice"}]

NestIssue(i, c) ==
    [PlainIssue(i) EXCEPT
        !.parent = CASE c.parent = "none" -> None
                     [] c.parent = "first" -> Key(1)
                     [] c.parent = "previous" -> Key(i - 1),
        !.orig = c.orig,
        !.assignee = c.assignee]

InitNest ==
    \E c \in [TaskIds -> NestChoices] :
        /\ c[1].parent = "none"
        /\ Start([i \in TaskIds |-> NestIssue(i, c[i])],
                 [NoOptions EXCEPT !.enable_epics = TRUE, !.depend_on_preceding = TRUE,
                                   !.output = TRUE])

SpecNest == InitNest /\ [][Next]_vars

-----------------------------------------------------------------------------
(* Links: an issue with inward and outward links of two types, to issues in and out of *)
(* the result set, under several accepted sets                                         *)

LinkTypes ==
    {[inward |-> "is blocked by", outward |-> "blocks"],
     [inward |-> "relates to", outward |-> "relates to"]}

IssueLinks ==
    {[has_inward |-> d, type_inward |-> t.inward, type_outward |-> t.outward, key |-> k] :
        d \in BOOLEAN, t \in LinkTypes, k \in {Key(1), Key(NumTasks - 1), OutsideKey}}

AcceptedSets == {{}, DefaultLinks, {"blocks"}, {"relates to"}}

\* The last issue carries the links; the first one is open or resolved
InitLinks ==
    \E issuelinks \in SeqsUpTo(IssueLinks, MaxLinks), links \in AcceptedSets,
       resolution \in Resolutions({0}), depend_on_preceding \in BOOLEAN :
        Start([i \in TaskIds |->
                 [PlainIssue(i) EXCEPT
                    !.issuelinks = IF i = NumTasks THEN issuelinks ELSE <<>>,
                    !.status = IF i = 1 THEN resolution[1] ELSE "Open",
                    !.histories = IF i = 1 THEN resolution[2] ELSE <<>>]],
              [NoOptions EXCEPT !.links = links, !.depend_on_preceding = depend_on_preceding])

SpecLinks == InitLinks /\ [][Next]_vars

-----------------------------------------------------------------------------
(* Usernames: calls of to_username with account IDs, user IDs and User objects, on one *)
(* JiraJuggler instance after another                                                   *)

\* An account ID of Jira Cloud
AccountId(c) == [n \in 1..ACCOUNT_ID_LENGTH |-> c]

AccountIds == {AccountId("a"), AccountId("b")}

\* User objects: with an e-mail address, with a name only (Jira Server), with a display
\* name only (restricted visibility), with none of these
UserObjects(accountId, s) ==
    {[accountId |-> accountId, s |-> s, emailAddress |-> e, name |-> n, displayName |-> d] :
        <<e, n, d>> \in {<<<<"a", "l", "@", "x">>, <<"a">>, <<"A">>>>,
                         <<<<>>, <<"a">>, <<"A">>>>,
                         <<<<>>, <<>>, <<"A">>>>,
                         <<<<>>, <<>>, <<>>>>}}

NoUser == [accountId |-> None, s |-> <<>>, emailAddress |-> <<>>, name |-> <<>>, displayName |-> <<>>]

StrValue(s) == [is_str |-> TRUE, s |-> s, user |-> NoUser]

UserValue(user) == [is_str |-> FALSE, s |-> user.s, user |-> user]

\* The account IDs; the user ID "al" and the display name "A" of Jira Server; the assignee of a Jira Cloud issue, with and without
\* an e-mail address; the assignee of a Jira Server issue, whose str() is the display name
UsernameValues ==
    {StrValue(id) : id \in AccountIds \cup {<<"a", "l">>, <<"A">>}}
    \cup {UserValue(u) : u \in {v \in UserObjects(Some(AccountId("a")), <<"A">>) :
                                    v.emailAddress # <<>> \/ v.name = <<>>}}
    \cup {UserValue(u) : u \in {v \in UserObjects(None, <<"A">>) : v.emailAddress # <<>>}}

\* What jirahandle.user knows: every subset of the account IDs, each with the attributes
\* of any User object that determine_username reads
UserCatalogs ==
    UNION {[ids -> UserObjects(None, <<"A">>)] : ids \in SUBSET AccountIds}

InitUsers ==
    \E users \in UserCatalogs :
        StartWith(<<>>, NoOptions, [users |-> users, user_calls |-> <<>>])

NextUsers ==
    \/ Construct
    \/ \E value \in UsernameValues : ToUsername(value)

SpecUsers == InitUsers /\ [][NextUsers]_vars

-----------------------------------------------------------------------------
(* Weekends: calculate_weekends called on a Monday, a Friday and a Saturday, before, in *)
(* and after working hours                                                              *)

\* 00:00, 08:00, 09:00, 09:01, 13:00, 17:00 and 23:00
TimesOfDay == {0, 480, 540, 541, 780, 1020, 1380}

Dates == {d * DAY + t : d \in {0, 4, 5}, t \in TimesOfDay}

\* 0, 1/480, 0.2, 0.5, 1, 1.5, 5, 5.5 and 10 workdays
WorkdaysPassed == {0, 1, 96, 240, 480, 720, 2400, 2640, 4800}

\* 0, 0.1, 5 and 7 workdays a week
WeeklyMaxima == {0, 48, 2400, 3360}

InitWeekends ==
    /\ jira = <<>>
    /\ handle = OnePage
    /\ opts = NoOptions
    /\ obj = <<>>
    /\ tasks = <<>>
    /\ out = None
    /\ pc = "start"
    /\ id_to_username_mapping = <<>>
    /\ returned = <<>>
    /\ depends_properties = NoProperties
    /\ \E date \in Dates, workdays_passed \in WorkdaysPassed, weeklymax \in WeeklyMaxima :
          weekends = Some([date |-> date, workdays_passed |-> workdays_passed,
                           weeklymax |-> weeklymax, outcome |-> None])

NextWeekends == CalculateWeekends

SpecWeekends == InitWeekends /\ [][NextWeekends]_vars

-----------------------------------------------------------------------------
(* Logged time: open and resolved issues of two assignees, with and without time spent; *)
(* the first may be blocked by the second and may be the parent of the last             *)

SpentChoices == [resolved : BOOLEAN, assignee : {"alice", "bob"}, spent : {None, Some(3600)}]

SpentIssue(i, c, linked, nested) ==
    [PlainIssue(i) EXCEPT
        !.status = IF c.resolved THEN "Resolved" ELSE "Open",
        !.histories = IF c.resolved THEN <<StatusChange(i, "resolved")>> ELSE <<>>,
        !.assignee = c.assignee,
        !.spent = c.spent,
        !.issuelinks = IF linked /\ i = 1 THEN <<BlockedBy(Key(2))>> ELSE <<>>,
        !.parent = IF nested /\ i = NumTasks THEN Key(1) ELSE None]

InitSpent ==
    \E c \in [TaskIds -> SpentChoices], linked \in BOOLEAN, nested \in BOOLEAN :
        Start([i \in TaskIds |-> SpentIssue(i, c[i], linked, nested)],
              [NoOptions EXCEPT !.depend_on_preceding = TRUE, !.enable_epics = nested])

SpecSpent == InitSpent /\ [][Next]_vars

-----------------------------------------------------------------------------
(* References: every assignment of parent and epic keys within the result set, an issue *)
(* naming itself or two issues naming each other included                               *)

References == {None} \cup {Some(Key(i)) : i \in TaskIds}

ReferenceChoices == [parent : References, epic : References, issuetype : {"epic", "task"}]

\* The last issue may have a null original estimate
InitReferences ==
    \E c \in [TaskIds -> ReferenceChoices], orig \in {None, Some(7200)} :
        Start([i \in TaskIds |->
                 [PlainIssue(i) EXCEPT
                    !.parent = IF c[i].parent = None THEN None ELSE Val(c[i].parent),
                    !.epic = IF c[i].epic = None THEN None ELSE Val(c[i].epic),
                    !.issuetype = c[i].issuetype,
                    !.orig = IF i = NumTasks THEN orig ELSE Some(7200)]],
              [NoOptions EXCEPT !.enable_epics = TRUE])

SpecReferences == InitReferences /\ [][Next]_vars

-----------------------------------------------------------------------------
(* Depends properties: JugglerTaskDepends objects constructed without an issue, then     *)
(* loaded, cleared and appended to in any order                                          *)

Properties == 1..NumProperties

InitProperties ==
    /\ jira = [i \in TaskIds |->
                 [PlainIssue(i) EXCEPT !.issuelinks = <<BlockedBy(Key((i % NumTasks) + 1))>>]]
    /\ handle = OnePage
    /\ opts = NoOptions
    /\ obj = <<>>
    /\ tasks = <<>>
    /\ out = None
    /\ pc = "start"
    /\ id_to_username_mapping = <<>>
    /\ returned = <<>>
    /\ weekends = None
    /\ depends_properties = [DEFAULT_VALUE |-> <<>>,
                             own |-> [p \in Properties |-> <<>>],
                             value |-> [p \in Properties |-> "DEFAULT_VALUE"]]

NextProperties ==
    \E p \in Properties :
        \/ PropertyClear(p)
        \/ \E i \in TaskIds : PropertyLoad(p, jira[i])
        \/ \E i \in TaskIds : PropertyAppendValue(p, to_identifier(Key(i)))

SpecProperties == InitProperties /\ [][NextProperties]_vars

-----------------------------------------------------------------------------
(* Validation of flat lists and of lists with a container: the issues of the pruning   *)
(* result sets, the last of which may be a child of the first                           *)

InitValidate ==
    \E c \in [TaskIds -> PruneChoices], nested \in BOOLEAN :
        Start([i \in TaskIds |->
                 [PruneIssue(i, c[i]) EXCEPT
                    !.parent = IF nested /\ i = NumTasks THEN Key(1) ELSE None]],
              [NoOptions EXCEPT !.enable_epics = nested])

SpecValidate == InitValidate /\ [][Next]_vars

-----------------------------------------------------------------------------
(* Search: result sets served in pages, one of which may fail; output to a file *)

InitFetch ==
    \E size \in 1..NumTasks :
    \E fail \in 0..(NumTasks + 1) :
    \E output \in BOOLEAN :
    \E orig \in [TaskIds -> {None, Some(7200)}] :
        StartWith([i \in TaskIds |-> [PlainIssue(i) EXCEPT !.orig = orig[i]]],
                  [NoOptions EXCEPT !.output = output],
                  [page_size |-> size, fail_page |-> fail])

SpecFetch == InitFetch /\ [][Next]_vars

-----------------------------------------------------------------------------
(* Properties of load_issues_from_jira *)

\* load_issues_from_jira has returned `tasks`
Returned == pc = "done"

\* build_hierarchical_tasks has run (or has been skipped) and nothing has raised since
AfterBuild == pc \in {"built", "validated", "sprint_sorted", "status_sorted", "done"}

\* The tasks of the forest that the list `tasks` holds: its elements and all tasks below them
OutputTasks == Range(tasks) \cup UNION {Descendants(obj, t) : t \in Range(tasks)}

IsContainer(task) == task.children # <<>>

\* The task that JugglerTask(issue) yields for the i-th issue, before any later step
Mapped(i) == JugglerTask(jira[i], opts.links)

\* The issue under which the keys of the i-th issue place it: the issue its parent key
\* names if that is in the result set, else the one its epic key names if that is in the
\* result set, else 0
PlacedUnder(i) ==
    IF \E p \in TaskIds : jira[p].key = jira[i].parent
    THEN CHOOSE p \in TaskIds : jira[p].key = jira[i].parent
    ELSE IF \E e \in TaskIds : jira[e].key = jira[i].epic
         THEN CHOOSE e \in TaskIds : jira[e].key = jira[i].epic
         ELSE 0

ChildrenByKeys(p) == {i \in TaskIds : PlacedUnder(i) = p}

\* "effectively zero": original and remaining estimate both absent or 0, and a computed
\* effort of at most 1/8 day
EffectivelyZero(i) ==
    /\ ~Truthy(IF jira[i].has_orig THEN jira[i].orig ELSE None)
    /\ ~Truthy(jira[i].rem)
    /\ Val(Mapped(i).effort) <= MINIMAL_VALUE

\* An epic to which the rule "discard all children" applies
DiscardingEpic(e) ==
    /\ jira[e].issuetype = "epic"
    /\ \E c \in ChildrenByKeys(e) : EffectivelyZero(c)

\* C1: every task of the returned forest is a container without effort or has an effort of
\* at least 1/8 day; in particular no task with effort 0 is in the output.
C1_EffortFloorInOutput ==
    Returned =>
        \A id \in OutputTasks :
            \/ IsContainer(obj[id]) /\ obj[id].effort = None
            \/ obj[id].effort # None /\ Val(obj[id].effort) >= MINIMAL_VALUE

\* C2: every identifier in the depends list of a task of the returned forest is the
\* identifier of a task of the returned forest.
C2_NoDanglingDepends ==
    Returned =>
        \A id \in OutputTasks :
            \A d \in Range(obj[id].depends) :
                \E t \in OutputTasks : to_identifier(obj[t].key) = d

\* C3: from build_hierarchical_tasks on, every task of the forest that has children has no
\* effort value, and no step of the pipeline fails.
C3_ContainersWithoutEffort ==
    /\ AfterBuild => \A id \in OutputTasks : IsContainer(obj[id]) => obj[id].effort = None
    /\ pc # "raised"

\* The sum of the effort values of the leaves below a task
RECURSIVE LeafEffort(_, _)
LeafEffort(o, id) ==
    IF o[id].children = <<>> THEN Val(o[id].effort)
    ELSE SeqSum([j \in 1..Len(o[id].children) |-> LeafEffort(o, o[id].children[j])])

\* C4: for every container task calculate_rolled_up_effort is the sum of the efforts of
\* its leaf descendants.
C4_RollupIsLeafSum ==
    AfterBuild =>
        \A id \in OutputTasks :
            IsContainer(obj[id]) => calculate_rolled_up_effort(obj, id) = LeafEffort(obj, id)

\* C5: after build_hierarchical_tasks an epic with an effectively-zero child has no
\* children, none of its children is in the output, it keeps its effort, and it is not in
\* the output itself when that effort is 0; any other epic keeps all its children.
C5_EpicDiscardsChildren ==
    pc = "built" =>
        \A e \in TaskIds :
            jira[e].issuetype = "epic" =>
                IF DiscardingEpic(e)
                THEN /\ obj[e].children = <<>>
                     /\ ChildrenByKeys(e) \cap OutputTasks = {}
                     /\ obj[e].effort = Mapped(e).effort
                     /\ (Mapped(e).effort = Some(0) => e \notin OutputTasks)
                ELSE Range(obj[e].children) = ChildrenByKeys(e)

\* The places where a task occurs: <<p, j>> for the j-th child of task p, <<0, j>> for the
\* j-th element of the list `tasks`
Positions(t) ==
    {pj \in (DOMAIN obj) \X (1..NumTasks) :
        pj[2] <= Len(obj[pj[1]].children) /\ obj[pj[1]].children[pj[2]] = t}
    \cup {<<0, j>> : j \in {k \in 1..Len(tasks) : tasks[k] = t}}

\* C6: with hierarchy enabled and no epic discarding its children, build_hierarchical_tasks
\* puts every task in exactly one place: under the task its parent key names if that is in
\* the result set, else under the task its epic key names if that is in the result set,
\* else in the top-level list.
C6_PlacedOnce ==
    (pc = "built" /\ opts.enable_epics /\ \A e \in TaskIds : ~DiscardingEpic(e)) =>
        \A t \in TaskIds :
            /\ Cardinality(Positions(t)) = 1
            /\ \E j \in 1..NumTasks : <<PlacedUnder(t), j>> \in Positions(t)

C6_Witness ==
    /\ pc = "built" /\ opts.enable_epics /\ \A e \in TaskIds : ~DiscardingEpic(e)
    /\ jira[2].parent = OutsideKey /\ jira[2].epic = Key(1)
    /\ jira[3].parent = Key(1) /\ jira[3].epic = Key(2)
    /\ obj[1].children = <<2, 3>>
    /\ tasks = <<1>>

\* C7: with hierarchy disabled no task gets children, no effort value is cleared, and the
\* returned list holds every mapped task except those with effort 0, once each.
C7_FlatPassthrough ==
    ~opts.enable_epics =>
        /\ \A id \in DOMAIN obj : obj[id].children = <<>> /\ obj[id].effort # None
        /\ Returned =>
              /\ Range(tasks) = {i \in TaskIds : Mapped(i).effort # Some(0)}
              /\ Len(tasks) = Cardinality(Range(tasks))

C7_Witness ==
    /\ Returned /\ ~opts.enable_epics
    /\ jira[2].parent = Key(1) /\ jira[3].epic = Key(1)
    /\ Mapped(2).effort = Some(0)
    /\ tasks = <<1, 3>>

\* The unresolved tasks of a list, in list order
Unresolved(o, s) == SelectSeq(s, LAMBDA id : ~is_resolved(o[id]))

\* Resolved tasks first, in non-decreasing order of resolution date
StatusOrdered(o, s) ==
    \A j, k \in 1..Len(s) :
        j < k =>
            /\ is_resolved(o[s[k]]) => is_resolved(o[s[j]])
            /\ is_resolved(o[s[j]]) /\ is_resolved(o[s[k]]) =>
                   Val(o[s[j]].resolved_at_date) <= Val(o[s[k]].resolved_at_date)

\* C8: the status sort puts the resolved tasks first, in non-decreasing order of resolution
\* date, and keeps the unresolved tasks in the order they had before it; that order is the
\* order of the returned list.
C8_StatusOrder ==
    [][/\ (pc = "sprint_sorted" /\ pc' = "status_sorted") =>
              /\ StatusOrdered(obj', tasks')
              /\ Unresolved(obj', tasks') = Unresolved(obj, tasks)
       /\ pc = "status_sorted" => tasks' = tasks]_vars

C8_Witness ==
    /\ Returned /\ opts.sprint_field_name
    /\ ~is_resolved(obj[1]) /\ ~is_resolved(obj[2]) /\ is_resolved(obj[3])
    /\ jira[1].sprints = <<>> /\ jira[2].sprints # <<>>
    /\ tasks = <<3, 2, 1>>

\* The sprint entry the sprint sort selects for an issue: the first listed entry of the
\* highest state rank; <<>> when no entry has a ranked state
SprintRank(sprint_info) ==
    priorities(IF sprint_info.is_str THEN sprint_info.state ELSE Upper(sprint_info.state))

SelectedSprint(issue) ==
    LET ranked == {j \in 1..Len(issue.sprints) : SprintRank(issue.sprints[j]) > 0}
        best == {j \in ranked : \A k \in ranked :
                    SprintRank(issue.sprints[k]) <= SprintRank(issue.sprints[j])}
    IN  IF ranked = {} THEN <<>>
        ELSE <<issue.sprints[CHOOSE j \in best : \A k \in best : j <= k]>>

SelectedRank(issue) ==
    IF SelectedSprint(issue) = <<>> THEN 0 ELSE SprintRank(SelectedSprint(issue)[1])

\* Sprint x starts earlier than sprint y, a sprint without start date counting as latest
StartsEarlier(x, y) ==
    x.startDate # None /\ (y.startDate = None \/ Val(x.startDate) < Val(y.startDate))

\* C9: after sort_tasks_on_sprint the tasks are in order of the state rank of their
\* selected sprint, tasks without sprint last; of two tasks of equal rank in different
\* sprints the one whose sprint starts earlier comes first, a sprint without start date
\* counting as latest.
C9_SprintOrder ==
    (pc = "sprint_sorted" /\ opts.sprint_field_name) =>
        \A j, k \in 1..Len(tasks) :
            j < k =>
                LET a == jira[tasks[j]]
                    b == jira[tasks[k]]
                IN  /\ SelectedRank(a) >= SelectedRank(b)
                    /\ (/\ SelectedRank(a) = SelectedRank(b)
                        /\ SelectedRank(a) > 0
                        /\ SelectedSprint(a)[1].name # SelectedSprint(b)[1].name)
                       => ~StartsEarlier(SelectedSprint(b)[1], SelectedSprint(a)[1])

UnresolvedOf(o, s, assignee) ==
    {j \in 1..Len(s) : ~is_resolved(o[s[j]]) /\ o[s[j]].allocate = assignee}

\* Position j holds the unresolved task that immediately precedes the unresolved task at
\* position k among the tasks of the same assignee
Precedes(o, s, j, k) ==
    /\ j < k
    /\ k \in UnresolvedOf(o, s, o[s[k]].allocate)
    /\ j \in UnresolvedOf(o, s, o[s[k]].allocate)
    /\ \A m \in UnresolvedOf(o, s, o[s[k]].allocate) : ~(j < m /\ m < k)

\* The position holds the first unresolved task of its assignee
IsChainHead(o, s, k) ==
    /\ k \in UnresolvedOf(o, s, o[s[k]].allocate)
    /\ \A m \in UnresolvedOf(o, s, o[s[k]].allocate) : k <= m

Occurrences(value, v) == Cardinality({n \in 1..Len(value) : value[n] = v})

\* C11: after link_to_preceding_task every unresolved task other than the first unresolved
\* task of its assignee holds in its depends list, exactly once, the identifier of the
\* unresolved task of the same assignee that immediately precedes it, and has no start time.
C11_ChainedToPreceding ==
    (Returned /\ opts.depend_on_preceding) =>
        \A j, k \in 1..Len(tasks) :
            Precedes(obj, tasks, j, k) =>
                /\ Occurrences(obj[tasks[k]].depends, to_identifier(obj[tasks[j]].key)) = 1
                /\ obj[tasks[k]].time = [name |-> DEFAULT_NAME, value |-> EmptyTime]

\* a task that Jira already links to its predecessor, behind a resolved task
C11_Witness ==
    /\ Returned /\ opts.depend_on_preceding
    /\ is_resolved(obj[tasks[1]])
    /\ \E j, k \in 1..Len(tasks) :
          /\ Precedes(obj, tasks, j, k)
          /\ to_identifier(obj[tasks[j]].key) \in Range(Mapped(tasks[k]).depends)
          /\ Occurrences(obj[tasks[k]].depends, to_identifier(obj[tasks[j]].key)) = 1
          /\ obj[tasks[k]].time.value = EmptyTime

\* Every task that the depends list names is resolved
AllDependenciesResolved(o, s, id) ==
    \A n \in 1..Len(o[id].depends) :
        \A m \in 1..Len(s) :
            to_identifier(o[s[m]].key) = o[id].depends[n] => is_resolved(o[s[m]])

HasStart(task) == task.time.name = "start" /\ task.time.value # EmptyTime

\* C12: link_to_preceding_task gives the first unresolved task of an assignee a 'start' time
\* if and only if no task of its depends list is unresolved; with an unresolved dependency
\* it keeps its time and depends properties as they were. No other unresolved task gets
\* 'start', so at most one task for each assignee carries it.
C12_StartOfChainHead ==
    [][(pc = "status_sorted" /\ pc' = "done" /\ opts.depend_on_preceding) =>
          /\ \A k \in 1..Len(tasks) :
                IsChainHead(obj, tasks, k) =>
                    /\ HasStart(obj'[tasks[k]]) <=> AllDependenciesResolved(obj, tasks, tasks[k])
                    /\ ~AllDependenciesResolved(obj, tasks, tasks[k]) =>
                           /\ obj'[tasks[k]].time = obj[tasks[k]].time
                           /\ obj'[tasks[k]].time.value = EmptyTime
                           /\ obj'[tasks[k]].depends = obj[tasks[k]].depends
          /\ \A j, k \in 1..Len(tasks) :
                (HasStart(obj'[tasks[j]]) /\ HasStart(obj'[tasks[k]])
                 /\ obj'[tasks[j]].allocate = obj'[tasks[k]].allocate) => j = k]_vars

\* one chain head that waits for an unresolved task and one that starts
C12_Witness ==
    /\ Returned /\ opts.depend_on_preceding
    /\ \E k \in 1..Len(tasks) :
          /\ IsChainHead(obj, tasks, k)
          /\ ~AllDependenciesResolved(obj, tasks, tasks[k])
          /\ obj[tasks[k]].time.value = EmptyTime
    /\ \E k \in 1..Len(tasks) :
          /\ IsChainHead(obj, tasks, k)
          /\ obj[tasks[k]].depends # <<>>
          /\ HasStart(obj[tasks[k]])

\* The items of the history of an issue in the order of the instants of their changes,
\* each with that instant
Chronological(issue) ==
    LET items == ItemsOf(issue.histories)
    IN  [n \in 1..Len(items) |-> [at |-> isoparse(items[n].created), item |-> items[n].item]]

IsResolving(item) == item.field = "status" /\ item.toString \in {"approved", "resolved"}

\* The assignee in effect at the most recent transition to Approved or Resolved, as the
\* history tells it: the one the last reassignment before the transition assigned to, else
\* the one the first reassignment after it took the issue from; "" when the history has no
\* such transition or does not tell
AssigneeAtResolution(issue) ==
    LET h == Chronological(issue)
        R == {n \in 1..Len(h) : IsResolving(h[n].item)}
    IN  IF R = {} THEN ""
        ELSE LET r == CHOOSE n \in R : \A m \in R : h[m].at <= h[n].at
                 Before == {n \in 1..Len(h) : h[n].item.field = "assignee" /\ h[n].at < h[r].at}
                 After == {n \in 1..Len(h) : h[n].item.field = "assignee" /\ h[n].at > h[r].at}
             IN  IF Before # {}
                 THEN h[CHOOSE n \in Before : \A m \in Before : h[m].at <= h[n].at].item.to
                 ELSE IF After # {}
                      THEN h[CHOOSE n \in After : \A m \in After : h[n].at <= h[m].at].item.from
                      ELSE ""

\* C13: the allocate value of a Closed or Resolved issue is the assignee in effect at the
\* most recent transition to Approved/Resolved; when the history determines none it is the
\* current assignee, and the placeholder "not assigned" when there is none.
C13_AllocateAtResolution ==
    pc # "start" =>
        \A i \in DOMAIN jira :
            jira[i].status \in {"Closed", "Resolved"} =>
                Mapped(i).allocate =
                    IF AssigneeAtResolution(jira[i]) # "" THEN AssigneeAtResolution(jira[i])
                    ELSE IF jira[i].assignee # "" THEN jira[i].assignee
                    ELSE ALLOCATE_DEFAULT_VALUE

\* The instants of the transitions of the history to one of the given statuses
TransitionsTo(issue, statuses) ==
    LET h == Chronological(issue)
    IN  {h[n].at : n \in {m \in 1..Len(h) : h[m].item.field = "status"
                                            /\ h[m].item.toString \in statuses}}

Latest(instants) == CHOOSE x \in instants : \A y \in instants : y <= x

\* C14: the resolution date of a resolved task is the instant of the chronologically latest
\* transition to Approved or Resolved if the history has one, whatever transitions to
\* Closed it has; else that of the latest transition to Closed; an unresolved task has none.
C14_ResolutionDate ==
    pc # "start" =>
        \A i \in DOMAIN jira :
            obj[i].resolved_at_date =
                IF jira[i].status \notin {"Approved", "Resolved", "Closed"} THEN None
                ELSE IF TransitionsTo(jira[i], {"approved", "resolved"}) # {}
                     THEN Some(Latest(TransitionsTo(jira[i], {"approved", "resolved"})))
                     ELSE IF TransitionsTo(jira[i], {"closed"}) # {}
                          THEN Some(Latest(TransitionsTo(jira[i], {"closed"})))
                          ELSE None

\* C15: the effort mapped from an issue is, in seconds: for a Closed or Resolved issue the
\* logged time when that is not 0, else the original estimate; for an open issue with a
\* remaining estimate that estimate, or 1/8 day when it is 0; 1/8 day for an issue without
\* the original estimate field.
C15_EffortPreference ==
    pc # "start" =>
        \A i \in DOMAIN jira :
            LET issue == jira[i]
                effort == Mapped(i).effort
            IN  /\ (issue.has_orig /\ issue.status \in {"Closed", "Resolved"}) =>
                       /\ Truthy(issue.spent) => effort = issue.spent
                       /\ (~Truthy(issue.spent) /\ issue.orig # None) => effort = issue.orig
                /\ (issue.has_orig /\ issue.status \notin {"Closed", "Resolved"}
                    /\ issue.rem # None) =>
                       effort = IF Val(issue.rem) # 0 THEN issue.rem ELSE Some(MINIMAL_VALUE)
                /\ ~issue.has_orig => effort = Some(EFFORT_DEFAULT_VALUE)

\* The number of calls of enhanced_search_issues that the search loop makes when none fails
FetchCalls ==
    IF Len(jira) = 0 THEN 1
    ELSE CHOOSE n \in 1..Len(jira) :
            /\ n * handle.page_size >= Len(jira)
            /\ (n - 1) * handle.page_size < Len(jira)

\* One of the calls that the search loop makes raises a query error
FetchFails == handle.fail_page \in 1..FetchCalls

\* C16: if the fetch of a page raises a query error, load_issues_from_jira returns None,
\* whatever pages were mapped before, nothing of the pipeline runs after it and juggle leaves
\* the output file untouched.
C16_FailedFetchAborts ==
    FetchFails => (pc \in {"start", "failed", "juggled"} /\ out = None)

\* the second page fails after the first has been mapped
C16_Witness ==
    /\ pc = "juggled" /\ out = None
    /\ opts.output
    /\ handle.fail_page = 2 /\ FetchFails
    /\ Len(obj) = handle.page_size
    /\ obj[1].effort = Some(7200)

\* C17 as stated: whenever a property of any kind is empty (is_empty), its text is the empty
\* string.
C17_EmptyRendersNothing ==
    \A id \in DOMAIN obj :
        /\ allocate_is_empty(obj[id].allocate) => allocate_str(obj[id]) = <<>>
        /\ effort_is_empty(obj[id].effort) => effort_str(obj[id]) = <<>>
        /\ depends_is_empty(obj[id].depends) => depends_str(obj[id]) = <<>>
        /\ time_is_empty(obj[id].time.value) => time_str(obj[id]) = <<>>

\* C17, amended: an empty depends or time property has the empty string as its text; the
\* text of an allocate or effort property is the empty string exactly when the value is
\* None, so an effort of 0 or of the default 1/8 day and the allocate default are written.
C17_EmptyRendering ==
    \A id \in DOMAIN obj :
        /\ depends_is_empty(obj[id].depends) => depends_str(obj[id]) = <<>>
        /\ time_is_empty(obj[id].time.value) => time_str(obj[id]) = <<>>
        /\ effort_str(obj[id]) = <<>> <=> obj[id].effort = None
        /\ allocate_str(obj[id]) # <<>>

\* a container, an unestimated task without assignee, and a task with the default effort
C17_Witness ==
    /\ Returned
    /\ \E id \in DOMAIN obj :
          /\ obj[id].effort = None /\ effort_str(obj[id]) = <<>>
          /\ depends_is_empty(obj[id].depends) /\ depends_str(obj[id]) = <<>>
    /\ \E id \in DOMAIN obj :
          /\ obj[id].effort = Some(0)
          /\ obj[id].allocate = ALLOCATE_DEFAULT_VALUE
          /\ time_is_empty(obj[id].time.value) /\ time_str(obj[id]) = <<>>
    /\ \E id \in DOMAIN obj :
          /\ obj[id].effort = Some(EFFORT_DEFAULT_VALUE)
          /\ effort_str(obj[id]) = TAB \o <<"effort", " ", ToString(MINIMAL_VALUE), "d", "\n">>

\* The first line of the text of a task: 'task <id> "<description>" {'
HeaderLine(o, id) == split(strip(task_str(o, id)))[1]

\* The position of the first atom at or after pos that is a double quote no backslash
\* escapes; 0 when there is none
RECURSIVE ClosingQuote(_, _)
ClosingQuote(line, pos) ==
    IF pos > Len(line) THEN 0
    ELSE IF line[pos] = "\\" THEN ClosingQuote(line, pos + 2)
    ELSE IF line[pos] = "\"" THEN pos
    ELSE ClosingQuote(line, pos + 1)

\* The number of unescaped double quotes of a text from pos on
RECURSIVE UnescapedQuotes(_, _)
UnescapedQuotes(text, pos) ==
    IF pos > Len(text) THEN 0
    ELSE IF text[pos] = "\\" THEN UnescapedQuotes(text, pos + 2)
    ELSE (IF text[pos] = "\"" THEN 1 ELSE 0) + UnescapedQuotes(text, pos + 1)

\* C18: in the text of a task every double quote of the summary stands behind exactly one
\* backslash, the quoted summary ends at its closing quote only, and the unescaped quotes
\* of the text are balanced; also for a summary that is cut.
C18_QuotesEscaped ==
    (pc = "juggled" /\ out # None) =>
        \A id \in OutputTasks :
            LET line == HeaderLine(obj, id)
                open == 4 + Len(obj[id].key)
            IN  /\ line[open] = "\""
                /\ ClosingQuote(line, open + 1) = Len(line) - 2
                /\ \A p \in (open + 1)..(Len(line) - 3) :
                       line[p] = "\"" => (line[p - 1] = "\\" /\ line[p - 2] # "\\")
                /\ UnescapedQuotes(task_str(obj, id), 1) % 2 = 0

\* The lines of the text of a task that are not blank
Lines(o, id) == SelectSeq(split(task_str(o, id)), LAMBDA line : strip(line) # <<>>)

\* The number of blanks a line starts with
Indent(line) == Len(line) - Len(lstrip(line))

IsHeader(line) == Head(lstrip(line)) = "task"

IsClosingBrace(line) == lstrip(line) = <<"}">>

\* From line n on, with `depth` blocks open: a header line is indented by 4 * depth blanks
\* and opens a block, every other line is inside a block and indented by 4 blanks more than
\* the header of the innermost open block, a closing brace as its header; the outermost
\* block closes on the last line
RECURSIVE WellNested(_, _, _)
WellNested(lines, n, depth) ==
    IF n > Len(lines) THEN depth = 0
    ELSE IF IsHeader(lines[n])
         THEN /\ Indent(lines[n]) = 4 * depth
              /\ lines[n][Len(lines[n])] = "{"
              /\ depth = 0 => n = 1
              /\ WellNested(lines, n + 1, depth + 1)
    ELSE IF IsClosingBrace(lines[n])
         THEN /\ depth > 0
              /\ Indent(lines[n]) = 4 * (depth - 1)
              /\ WellNested(lines, n + 1, depth - 1)
    ELSE /\ depth > 0
         /\ Indent(lines[n]) = 4 * depth
         /\ WellNested(lines, n + 1, depth)

\* A task and the tasks below it, parents before children, each with its nesting depth
RECURSIVE Preorder(_, _, _)
Preorder(o, id, depth) ==
    <<[id |-> id, depth |-> depth]>>
    \o Concat([n \in 1..Len(o[id].children) |-> Preorder(o, o[id].children[n], depth + 1)])

\* C19: in the text of a top-level task of the returned list the header line of a
\* descendant at depth k starts with exactly 4 * k blanks and its property lines with
\* 4 * (k + 1), every block lies inside the braces of its parent's block, and the braces are
\* balanced.
C19_Indentation ==
    Returned =>
        \A id \in Range(tasks) :
            LET lines == Lines(obj, id)
                headers == SelectSeq(lines, IsHeader)
                expected == Preorder(obj, id, 0)
            IN  /\ WellNested(lines, 1, 0)
                /\ Len(headers) = Len(expected)
                /\ \A n \in 1..Len(expected) :
                       /\ Indent(headers[n]) = 4 * expected[n].depth
                       /\ SubSeq(lstrip(headers[n]), 1, 3 + Len(obj[expected[n].id].key))
                              = <<"task", " ">> \o to_identifier(obj[expected[n].id].key)
                                \o <<" ">>

\* a top-level task with a child and a grandchild
C19_Witness ==
    /\ Returned
    /\ \E id \in Range(tasks) :
          /\ \E c \in Range(obj[id].children) : obj[c].children # <<>>
          /\ obj[id].time.name = "start"
          /\ WellNested(Lines(obj, id), 1, 0)
          /\ \E n \in 1..Len(Lines(obj, id)) :
                IsHeader(Lines(obj, id)[n]) /\ Indent(Lines(obj, id)[n]) = 8

\* C20: validate_tasks removes every task of the list whose effort is 0, none is skipped, and
\* it leaves in the depends list of no task that stays in the list the identifier of a task
\* it has removed, wherever the two stand in the list; the tasks that stay have an effort of
\* at least 1/8 day and of their links those to tasks that stay, in the order they had.
C20_PrunedAfterRemoval ==
    [][(pc = "built" /\ pc' = "validated") =>
          /\ \A a \in Range(tasks) : a \in Range(tasks') <=> obj[a].effort # Some(0)
          /\ \A a, b \in Range(tasks) :
                (a \notin Range(tasks') /\ b \in Range(tasks')) =>
                    to_identifier(obj[a].key) \notin Range(obj'[b].depends)
          /\ \A b \in Range(tasks') :
                /\ obj'[b].effort # None => Val(obj'[b].effort) >= MINIMAL_VALUE
                /\ obj'[b].depends =
                       SelectSeq(obj[b].depends,
                                 LAMBDA v : \E t \in Range(tasks') : to_identifier(obj[t].key) = v)
      ]_vars

\* a removed task between a task that is linked to it and stands before it and one that is
\* linked to it and stands after it
C20_Witness ==
    /\ pc = "validated"
    /\ \E a \in DOMAIN obj :
          /\ a \notin Range(tasks) /\ obj[a].effort = Some(0)
          /\ \E b, c \in Range(tasks) :
                /\ b < a /\ a < c
                /\ to_identifier(obj[a].key) \in Range(Mapped(b).depends)
                /\ to_identifier(obj[a].key) \in Range(Mapped(c).depends)
                /\ to_identifier(obj[a].key) \notin Range(obj[b].depends)
                /\ to_identifier(obj[a].key) \notin Range(obj[c].depends)

\* A link counts when its type is accepted under the name of its direction
IsAccepted(link, links) ==
    IF link.has_inward THEN link.type_inward \in links ELSE link.type_outward \in links

\* The sanitized keys of the accepted links, each at its first occurrence
FirstOccurrences(issuelinks, links) ==
    LET first == SelectSeq([n \in 1..Len(issuelinks) |-> n],
                           LAMBDA n : /\ IsAccepted(issuelinks[n], links)
                                      /\ \A m \in 1..(n - 1) :
                                            IsAccepted(issuelinks[m], links)
                                            => issuelinks[m].key # issuelinks[n].key)
    IN  [n \in 1..Len(first) |-> to_identifier(issuelinks[first[n]].key)]

NoDuplicates(value) == \A m, n \in 1..Len(value) : value[m] = value[n] => m = n

\* C21: the depends list mapped from an issue holds the sanitized keys of its accepted links
\* (inward by the inward name, outward by the outward name) in order of first occurrence,
\* it is empty under an empty accepted set, and no depends list ever holds a value twice.
C21_DependsFromLinks ==
    /\ pc = "mapped" =>
          \A i \in 1..Len(obj) :
             /\ obj[i].depends = FirstOccurrences(jira[i].issuelinks, opts.links)
             /\ opts.links = {} => obj[i].depends = <<>>
    /\ \A i \in 1..Len(obj) : NoDuplicates(obj[i].depends)

\* All links of the last issue are accepted and lead to T-2, the issue it is chained to
C21_Witness ==
    /\ pc = "done"
    /\ opts.depend_on_preceding
    /\ Len(jira[NumTasks].issuelinks) = MaxLinks
    /\ \A n \in 1..MaxLinks :
          /\ IsAccepted(jira[NumTasks].issuelinks[n], opts.links)
          /\ jira[NumTasks].issuelinks[n].key = Key(NumTasks - 1)
    /\ obj[NumTasks].depends = <<to_identifier(Key(NumTasks - 1))>>

IsAccountId(user_id) == Len(user_id) >= ACCOUNT_ID_LENGTH

\* The account IDs of the calls made and of the lookups
CalledAccountIds ==
    {id \in {returned[n].user_id : n \in 1..Len(returned)} \cup Range(handle.user_calls) :
        IsAccountId(id)}

\* All calls for an account ID that returned, returned the same username
SameUsername ==
    \A m, n \in 1..Len(returned) :
        /\ returned[m].user_id = returned[n].user_id
        /\ IsAccountId(returned[m].user_id)
        /\ ~returned[m].raised /\ ~returned[n].raised
        => returned[m].username = returned[n].username

\* No call since the construction: the dict is empty
EmptyWhenConstructed == returned = <<>> => id_to_username_mapping = <<>>

\* A step that adds a call that raised
CallRaises == Len(returned') = Len(returned) + 1 /\ returned'[Len(returned')].raised

\* C22 as stated: on one instance jirahandle.user is called at most once for an account ID,
\* all calls for an account ID return the same username, the dict is empty at construction,
\* and a call that fails to determine a username leaves the dict as it was.
C22_OneLookupPerId ==
    /\ [](/\ \A id \in CalledAccountIds : Occurrences(handle.user_calls, id) <= 1
          /\ SameUsername
          /\ EmptyWhenConstructed)
    /\ [][CallRaises => id_to_username_mapping' = id_to_username_mapping]_vars

\* C22, amended: on one instance jirahandle.user is never called for an account ID that has a
\* username in the dict, so at most one of the lookups for an account ID determines a
\* username; all calls for an account ID that return, return the same username; the dict is
\* empty at construction; and a call that fails to determine a username leaves the dict as
\* it was.
C22_NoLookupOnceCached ==
    /\ [](SameUsername /\ EmptyWhenConstructed)
    /\ [][/\ \A id \in DOMAIN id_to_username_mapping :
               Occurrences(handle.user_calls', id) <= Occurrences(handle.user_calls, id)
           /\ CallRaises => id_to_username_mapping' = id_to_username_mapping]_vars

\* After a call that raised, an account ID was looked up once and then served from the dict
C22_Witness ==
    \E id \in AccountIds :
        /\ Len(returned) = MaxCalls
        /\ Occurrences(handle.user_calls, id) = 1
        /\ id \in DOMAIN id_to_username_mapping
        /\ Cardinality({n \in 1..Len(returned) :
                           returned[n].user_id = id /\ ~returned[n].raised}) >= 2
        /\ \E n \in 1..Len(returned) : returned[n].raised

Min(a, b) == IF a < b THEN a ELSE b

\* The part of the workday of 8 hours that has elapsed since 09:00 of the day of the date:
\* nothing before 09:00
ElapsedSinceNine(date) == IF date % DAY > NINE THEN (date % DAY) - NINE ELSE 0

\* e of the claim: the weekday index plus the elapsed part of the workday, at most w
ElapsedWorkdays(date, w) == Min(weekday(date) * WORKDAY + ElapsedSinceNine(date), w)

\* C23: calculate_weekends(date, n, w) returns 0 when n <= e and 1 + floor((n - e) / w)
\* otherwise, e being min(weekday index + part of the workday elapsed since 09:00, w); it
\* returns a non-negative whole number at every time of day and for every weeklymax >= 0, and
\* it does not decrease when n grows.
C23_WeekendCount ==
    (weekends # None /\ Val(weekends).outcome # None) =>
        LET call == Val(weekends)
            outcome == Val(call.outcome)
            n == call.workdays_passed
            w == call.weeklymax
            e == ElapsedWorkdays(call.date, w)
        IN  /\ ~outcome.raised
            /\ outcome.weekend_count \in Nat
            /\ n <= e => outcome.weekend_count = 0
            /\ (n > e /\ w > 0) => outcome.weekend_count = 1 + ((n - e) \div w)
            /\ \A more \in WorkdaysPassed :
                  more >= n =>
                     LET later == calculate_weekends(call.date, more, w)
                     IN  ~later.raised /\ later.weekend_count >= outcome.weekend_count

\* The task at the position is the first unresolved task of its assignee, gets 'start' in
\* the step, and has time logged
StartsWithLoggedTime(k) ==
    /\ IsChainHead(obj, tasks, k)
    /\ HasStart(obj'[tasks[k]])
    /\ Truthy(obj[tasks[k]].issue.spent)

DependsOn(o, s, id) == {t \in Range(s) : to_identifier(o[t].key) \in Range(o[id].depends)}

\* The tasks of the list reached from a set of them through one or more depends entries
RECURSIVE DependsBelow(_, _, _, _)
DependsBelow(o, s, frontier, seen) ==
    LET next == UNION {DependsOn(o, s, x) : x \in frontier} \ seen
    IN  IF next = {} THEN seen ELSE DependsBelow(o, s, next, seen \cup next)

\* No task of the list depends on itself, directly or through other tasks
Acyclic(o, s) == \A t \in Range(s) : t \notin DependsBelow(o, s, {t}, {})

\* C25: when no task of the list depends on itself, directly or through others, before
\* link_to_preceding_task, none does afterwards.
C25_ChainingKeepsAcyclic ==
    [][(pc = "status_sorted" /\ opts.depend_on_preceding /\ Acyclic(obj, tasks))
          => Acyclic(obj', tasks)]_vars

\* The tasks of the forest below a list of top-level tasks
Forest(o, s) == Range(s) \cup UNION {Descendants(o, t) : t \in Range(s)}

\* The places of a task in the forest: <<0, j>> for the j-th top-level task, <<p, j>> for the
\* j-th child of a task p of the forest
PlacesInForest(o, s, t) ==
    {<<0, j>> : j \in {k \in 1..Len(s) : s[k] = t}}
    \cup {pj \in Forest(o, s) \X (1..NumTasks) :
            pj[2] <= Len(o[pj[1]].children) /\ o[pj[1]].children[pj[2]] = t}

\* The tasks the effectively-zero rule discards: the children of an epic with an
\* effectively-zero child, and such an epic when its own effort is 0
DiscardedByRule ==
    UNION {ChildrenByKeys(e) : e \in {x \in TaskIds : DiscardingEpic(x)}}
    \cup {e \in TaskIds : DiscardingEpic(e) /\ Mapped(e).effort = Some(0)}

\* C26: with hierarchy enabled build_hierarchical_tasks ends without an error, whatever the
\* parent and epic keys are, and every mapped task that the effectively-zero rule does not
\* discard has exactly one place in the returned forest.
C26_NoTaskLost ==
    [][(pc = "mapped" /\ opts.enable_epics) =>
          /\ pc' = "built"
          /\ \A t \in TaskIds \ DiscardedByRule :
                Cardinality(PlacesInForest(obj', tasks', t)) = 1]_vars

\* sort_tasks_on_sprint has scanned the sprint entries and nothing has raised since
AfterSprintScan == opts.sprint_field_name /\ pc \in {"sprint_sorted", "status_sorted", "done"}

\* C27: after sort_tasks_on_sprint the sprint name, the sprint priority and the sprint start
\* date of a task are those of one sprint entry, the first listed one of highest state rank;
\* the start date is absent when that entry has none.
C27_SprintAttributesOfOneEntry ==
    AfterSprintScan =>
        \A id \in Range(tasks) :
            LET selected == SelectedSprint(obj[id].issue)
            IN  IF selected = <<>>
                THEN /\ obj[id].sprint_name = NoSprintName
                     /\ obj[id].sprint_priority = 0
                     /\ obj[id].sprint_start_date = None
                ELSE /\ obj[id].sprint_name = selected[1].name
                     /\ obj[id].sprint_priority = SprintRank(selected[1])
                     /\ obj[id].sprint_start_date = selected[1].startDate

\* C28: every task whose is_resolved is true has a resolution date, whatever the history of
\* its issue holds, and sorting the tasks with compare_status never fails.
C28_ResolvedHaveDate ==
    /\ [](\A id \in 1..Len(obj) : is_resolved(obj[id]) => obj[id].resolved_at_date # None)
    /\ [][pc = "sprint_sorted" => pc' = "status_sorted"]_vars

\* The properties whose value differs before and after the step
ChangedProperties ==
    {p \in DOMAIN depends_properties.value :
        value_of(depends_properties', p) # value_of(depends_properties, p)}

\* C29: every depends property owns its list: no operation on one property changes the value
\* of another, and the DEFAULT_VALUE of the class stays the empty list.
C29_OwnList ==
    /\ [](depends_properties.DEFAULT_VALUE = <<>>)
    /\ [][Cardinality(ChangedProperties) <= 1]_vars

\* C30: validate_tasks applied to the list it has validated removes no task, changes no
\* property value and raises nothing, be the list flat or with containers.
C30_ValidateIdempotent ==
    pc = "validated" => validate_tasks(obj, tasks) = [o |-> obj, tasks |-> tasks, raised |-> FALSE]

\* The validation removed a task, raised an effort to the minimum and removed two entries
\* of a depends list
C30_FlatWitness ==
    /\ pc = "validated"
    /\ Len(tasks) < Len(obj)
    /\ \E id \in Range(tasks) : Val(Mapped(id).effort) < MINIMAL_VALUE
    /\ \E id \in Range(tasks) : Len(Mapped(id).depends) = 2 /\ obj[id].depends = <<>>

\* The validation of a list with a container removed a depends entry that names the child
C30_Witness ==
    /\ pc = "validated"
    /\ opts.enable_epics
    /\ \E id \in Range(tasks) :
          /\ obj[id].children # <<>>
          /\ \E t \in Range(tasks) :
                /\ to_identifier(obj[obj[id].children[1]].key) \in Range(Mapped(t).depends)
                /\ to_identifier(obj[obj[id].children[1]].key) \notin Range(obj[t].depends)

====
